---- MODULE Spec2Model ----
(***************************************************************************)
(* The offline content cache (cache.js) and the download workflow          *)
(* (download.js, V2) of the DSE scripture reader, with the gateway's       *)
(* paginated fetch (ui.js, orchestrator variant) and the user-data reset   *)
(* (userdata.js).                                                          *)
(*                                                                         *)
(* Specifications:                                                         *)
(*   SpecMerge  saveBookChaptersInBatch, one IndexedDB request at a time   *)
(*   SpecCache  the functions of cache.js, call by call                    *)
(*   Spec       download.js: start, cancel and clear, await by await       *)
(*   SpecApp    the same beside _clearAllData and a reload of the page,    *)
(*              where runs can overlap                                     *)
(***************************************************************************)
EXTENDS Integers, Sequences, FiniteSets, TLC

\* ------------------------------------------------------------------ bounds
\* chapters of the book whose batch save is followed request by request
NumChapters == 2
\* verse numbers per chapter
MaxVerse == 2
\* rows (verse rows plus commentary rows) of one payload
MaxRows == 2
\* rows of the cross_references table
NumCrossRefs == 3
\* books with chapters in booksInfo
NumBooks == 4
\* invocations of start() that pass its guard
MaxStarts == 1
\* failures of the network, of the remote queries and of the store
MaxFaults == 2
\* invocations of clear()
MaxClears == 1
\* the same three for the whole application, where runs can overlap
NumBooksApp == 1
MaxStartsApp == 2
MaxFaultsApp == 1

\* rows per page of fetch_book_full and fetch_cross_refs (1000 in the gateway), scaled
PageSize == 2

Chapters == 1..NumChapters
Verses == 1..MaxVerse

\* ------------------------------------------------------------- JS values
\* stored and returned values carry their JS type in `kind`: a chapter record is
\* an "object", a core dataset an "array", an audio URL a "string"
Null == [kind |-> "null"]
EmptyObject == <<>>

\* Op applied to a value that is computed once
With(value, Op(_)) == CHOOSE result \in {Op(v) : v \in {value}} : TRUE

\* { ...a, ...b }
Spread(a, b) ==
    [f \in (DOMAIN a) \cup (DOMAIN b) |-> IF f \in DOMAIN b THEN b[f] ELSE a[f]]

\* ------------------------------------------------------------- store keys
\* `${bookId}-${chapterNum}-${language}`, kept as its '-'-separated segments
ChapterKey(bookId, chapterNum, language) == <<bookId, chapterNum, language>>

\* a Map keyed by verse_num: get(k) || {}, set(k, e)
MapGet(m, k) == IF k \in DOMAIN m THEN m[k] ELSE EmptyObject
MapSet(m, k, e) == [x \in (DOMAIN m) \cup {k} |-> IF x = k THEN e ELSE m[x]]

\* existingEntry.data.forEach(v => chapterDataMap.set(v.verse_num, v))
RECURSIVE LoadExisting(_, _)
LoadExisting(m0, data) ==
    With(m0, LAMBDA m :
        IF data = <<>> THEN m
        ELSE LoadExisting(MapSet(m, Head(data).verse_num, Head(data)), Tail(data)))

\* verses.filter(v => v.chapter_num === chapterNum).forEach(... { ...existing, ...v, ... })
RECURSIVE MergeVerses(_, _, _)
MergeVerses(m0, verses, chapterNum) ==
    With(m0, LAMBDA m :
        IF verses = <<>> THEN m
        ELSE LET v == Head(verses)
                 existing == MapGet(m, v.verse_num)
                 merged == Spread(Spread(existing, v),
                                  [chapter_num |-> chapterNum, verse_num |-> v.verse_num])
             IN MergeVerses(IF v.chapter_num = chapterNum
                              THEN MapSet(m, v.verse_num, merged) ELSE m,
                            Tail(verses), chapterNum))

\* commentaries.filter(c => c.chapter_num === chapterNum).forEach(...)
RECURSIVE MergeCommentaries(_, _, _)
MergeCommentaries(m0, commentaries, chapterNum) ==
    With(m0, LAMBDA m :
        IF commentaries = <<>> THEN m
        ELSE LET c == Head(commentaries)
                 existing == MapGet(m, c.verse_num)
                 merged == Spread(existing,
                                  [commentary_text |-> c.commentary_text,
                                   chapter_num |-> chapterNum, verse_num |-> c.verse_num])
             IN MergeCommentaries(IF c.chapter_num = chapterNum
                                    THEN MapSet(m, c.verse_num, merged) ELSE m,
                                  Tail(commentaries), chapterNum))

\* Array.from(map.values()).sort((a,b) => a.verse_num - b.verse_num)
RECURSIVE SortByVerseNum(_)
SortByVerseNum(m0) ==
    With(m0, LAMBDA m :
        IF DOMAIN m = {} THEN <<>>
        ELSE LET k == CHOOSE x \in DOMAIN m : \A y \in DOMAIN m : x <= y
             IN <<m[k]>> \o SortByVerseNum([x \in (DOMAIN m) \ {k} |-> m[x]]))

\* the record a missing key reads as: e.target.result || { data: [], isDownloaded: true }
DefaultEntry == [kind |-> "object", data |-> <<>>, isDownloaded |-> TRUE]

\* a merge that appends the payload's rows to the stored entries instead of merging by verse number
MergeChapterAppend(existingEntry, verses, commentaries, chapterNum) ==
    [kind |-> "object",
     data |-> existingEntry.data
              \o SelectSeq(verses, LAMBDA v : v.chapter_num = chapterNum)
              \o SelectSeq(commentaries, LAMBDA c : c.chapter_num = chapterNum),
     isDownloaded |-> TRUE]

\* a merge whose verse rows replace the stored entry instead of being spread over it
RECURSIVE ReplaceVerses(_, _, _)
ReplaceVerses(m, verses, chapterNum) ==
    IF verses = <<>> THEN m
    ELSE ReplaceVerses(IF Head(verses).chapter_num = chapterNum
                         THEN MapSet(m, Head(verses).verse_num, Head(verses)) ELSE m,
                       Tail(verses), chapterNum)

MergeChapterReplace(existingEntry, verses, commentaries, chapterNum) ==
    LET m0 == LoadExisting(EmptyObject, existingEntry.data)
        m1 == ReplaceVerses(m0, verses, chapterNum)
        m2 == MergeCommentaries(m1, commentaries, chapterNum)
    IN [kind |-> "object", data |-> SortByVerseNum(m2), isDownloaded |-> TRUE]

\* a merge that leaves the record's flag as it was stored
MergeChapterKeepFlag(existingEntry, verses, commentaries, chapterNum) ==
    LET m0 == LoadExisting(EmptyObject, existingEntry.data)
        m1 == MergeVerses(m0, verses, chapterNum)
        m2 == MergeCommentaries(m1, commentaries, chapterNum)
    IN [kind |-> "object", data |-> SortByVerseNum(m2), isDownloaded |-> existingEntry.isDownloaded]

\* steps 1-4 of the chapter loop: the record put under the chapter's key
MergeChapter(existingEntry, verses, commentaries, chapterNum) ==
    LET m0 == LoadExisting(EmptyObject, existingEntry.data)
        m1 == MergeVerses(m0, verses, chapterNum)
        m2 == MergeCommentaries(m1, commentaries, chapterNum)
    IN [kind |-> "object", data |-> SortByVerseNum(m2), isDownloaded |-> TRUE]

\* the Set of chapter numbers, in insertion order: verses first, then commentaries
RECURSIVE ChapterSet(_, _)
ChapterSet(acc, rows) ==
    IF rows = <<>> THEN acc
    ELSE LET c == Head(rows).chapter_num
         IN ChapterSet(IF \E i \in 1..Len(acc) : acc[i] = c THEN acc ELSE Append(acc, c),
                       Tail(rows))

ChaptersOf(payload) == ChapterSet(ChapterSet(<<>>, payload.verses), payload.commentaries)

\* (!verses || verses.length === 0) && (!commentaries || commentaries.length === 0)
NoDataProvided(payload) == payload.verses = <<>> /\ payload.commentaries = <<>>

StoreGet(st, key) == IF key \in DOMAIN st THEN st[key] ELSE Null
StorePut(st, key, value) == [k \in (DOMAIN st) \cup {key} |-> IF k = key THEN value ELSE st[k]]
StoreDelete(st, keys) == [k \in (DOMAIN st) \ keys |-> st[k]]

\* the store after the transaction of one batch save has completed
RECURSIVE PutChapters(_, _, _, _, _, _)
PutChapters(st, puts0, bookId, language, payload, todo) ==
    With(puts0, LAMBDA puts :
        IF todo = <<>> THEN puts
        ELSE LET key == ChapterKey(bookId, Head(todo), language)
                 existingEntry == IF key \in DOMAIN st THEN st[key] ELSE DefaultEntry
                 rec == MergeChapter(existingEntry, payload.verses, payload.commentaries, Head(todo))
             IN PutChapters(st, StorePut(puts, key, rec), bookId, language, payload, Tail(todo)))

Commit(st, puts0) ==
    With(puts0, LAMBDA puts :
        [k \in (DOMAIN st) \cup (DOMAIN puts) |-> IF k \in DOMAIN puts THEN puts[k] ELSE st[k]])

saveBookChaptersInBatch(st, bookId, language, payload) ==
    Commit(st, PutChapters(st, <<>>, bookId, language, payload, ChaptersOf(payload)))

\* ---------------------------------------------------------------- state
VARIABLES
    store,        \* the committed content of the object store 'chapter_text'
    db,           \* cache.js `db`: the module-scoped connection, "null" or "open"
    batch,        \* the saveBookChaptersInBatch call in progress, request by request
    saveResult,   \* what the last saveBookChaptersInBatch call returned
    readResult,   \* what the last getChapter call returned
    arg,          \* the payload handed to saveBookChaptersInBatch
    opResult,     \* what the last call of another cache.js function returned
    hist,         \* history: the store before the call and after the first call
    isDownloading,             \* currentState.isDownloading
    cancelDownloadFlag,        \* currentState.cancelDownloadFlag
    downloadProgress,          \* currentState.downloadProgress
    downloadedResources,       \* currentState.downloadedResources: the ids set to true
    downloadedLanguages,       \* currentState.downloadedLanguages (V1 ledger)
    downloadedBooksByLanguage, \* currentState.downloadedBooksByLanguage (V1 ledger)
    globalCrossRefsMapByLang,  \* currentState.globalCrossRefsMapByLang
    booksInfo,                 \* currentState.booksInfo
    localStorage,              \* the durable settings, key by key
    runs,         \* the invocations of start() that have not returned, and their closures
    fetch,        \* a call of fetchAllVersesForBook or fetchAllCrossRefs on its own
    reader,       \* the reading view: a chapter load or a reference search in progress
    audio,        \* audio.js: audioState, the <audio> element's src, the call in progress
    env           \* the environment: starts, clears and faults left, a pending deleteDatabase

cacheVars == <<store, db>>
mergeVars == <<batch, saveResult, readResult, arg>>
appVars == <<isDownloading, cancelDownloadFlag, downloadProgress, downloadedResources,
             downloadedLanguages, downloadedBooksByLanguage, globalCrossRefsMapByLang,
             booksInfo, localStorage, runs, fetch, reader, audio, env>>
\* what a step of saveBookChaptersInBatch or getChapter leaves alone
notMergeVars == <<opResult, appVars>>
\* what a call of another cache.js function leaves alone
notCacheVars == <<mergeVars, appVars>>
vars == <<cacheVars, mergeVars, opResult, hist, appVars>>

\* ------------------------------------------ the download state at startup
RunIds == {1, 2}

\* no call has returned yet
NoResult == [kind |-> "none"]

\* a slot of `runs` with no invocation in it
IdleRun ==
    [pc |-> "idle", tasks |-> {}, langIdx |-> 0, isSuccess |-> TRUE,
     fetchVerses |-> FALSE, fetchComm |-> FALSE, i |-> 0, books |-> <<>>,
     ref |-> [page |-> 0, all |-> <<>>],
     cancelled |-> FALSE, failed |-> FALSE, bookFailed |-> {}, started |-> {},
     finalized |-> {}, quotaAt |-> 0,
     language |-> "null", crossrefsSuccess |-> FALSE, booksDownloadedInThisRun |-> <<>>]

\* audioState as the module is loaded, the element without a source, no call of
\* updateViewContext and no error handler in progress
AudioIdle ==
    [pc |-> "idle", loadedUrl |-> Null, loadedBookId |-> "null", loadedChapter |-> 0,
     currentViewAudioUrl |-> Null, currentViewAudioReady |-> FALSE,
     currentViewBookId |-> "null", currentViewChapter |-> 0,
     src |-> Null, failedUrl |-> Null, bookId |-> "null", chapter |-> 0,
     healing |-> FALSE, source |-> "none"]

\* the reading view at rest, with the chapter loads and map lookups it may still make
ReaderIdle ==
    [pc |-> "idle", fn |-> "none", bookId |-> "null", chapter |-> 0, language |-> "null",
     result |-> NoResult, loads |-> 0, lookups |-> 0]

\* no paginated fetch has been called; `requests` lists the pages requested so far,
\* `cancelAt` the number of requests issued when onCancel() began to return true
\* (-1: it has not), `faults` the number of responses that carried a failure
FetchIdle ==
    [pc |-> "idle", fn |-> "none", bookId |-> "null", language |-> "null",
     includeVerses |-> FALSE, includeCommentary |-> FALSE,
     page |-> 0, verses |-> <<>>, commentaries |-> <<>>, all |-> <<>>,
     onCancel |-> FALSE, requests |-> <<>>, cancelAt |-> -1, faults |-> 0,
     hasMore |-> TRUE, result |-> NoResult]

InitialProgress ==
    [language |-> "null", currentBookId |-> "null",
     totalChaptersOverall |-> 0, downloadedChaptersOverall |-> 0]

\* localStorage.getItem(key) || fallback
GetItem(ls, key, fallback) == IF key \in DOMAIN ls THEN ls[key] ELSE fallback
SetItem(ls, key, value) == [k \in (DOMAIN ls) \cup {key} |-> IF k = key THEN value ELSE ls[k]]
RemoveItems(ls, keys) == [k \in (DOMAIN ls) \ keys |-> ls[k]]

\* the resource ledger as read at startup from the durable settings
LoadLedger(ls) == GetItem(ls, "downloadedResources", {})

\* currentState as the page load builds it from the durable settings
LoadState(ls, books, starts, faults) ==
    /\ isDownloading = FALSE
    /\ cancelDownloadFlag = FALSE
    /\ downloadProgress = InitialProgress
    /\ downloadedResources = LoadLedger(ls)
    /\ downloadedLanguages = GetItem(ls, "downloadedLanguages", {})
    /\ downloadedBooksByLanguage = GetItem(ls, "downloadedBooksByLanguage", <<>>)
    /\ globalCrossRefsMapByLang = [l \in {"am", "en"} |-> Null]
    /\ booksInfo = books
    /\ localStorage = ls
    /\ runs = [r \in RunIds |-> IdleRun]
    /\ fetch = FetchIdle
    /\ audio = AudioIdle
    /\ env = [starts |-> starts, faults |-> faults, clears |-> MaxClears, deletePending |-> FALSE]

\* ------------------------------------------------- inputs of SpecMerge
MergeBook == "gen"
MergeLang == "am"

VerseRow(bookId, c, n, t) ==
    [book_id |-> bookId, chapter_num |-> c, verse_num |-> n, verse_display_num |-> n, verse_text |-> t]
CommentaryRow(c, n, t) == [chapter_num |-> c, verse_num |-> n, commentary_text |-> t]

NewTexts == {"v1", "v2"}
NewComments == {"c1", "c2"}
VerseRows == {VerseRow(MergeBook, c, n, t) : c \in Chapters, n \in Verses, t \in NewTexts}
CommentaryRows == {CommentaryRow(c, n, t) : c \in Chapters, n \in Verses, t \in NewComments}

SeqsUpTo(S, n) == UNION {[1..k -> S] : k \in 0..n}

Payloads ==
    {[verses |-> vs, commentaries |-> cs] :
        <<vs, cs>> \in {p \in SeqsUpTo(VerseRows, MaxRows) \X SeqsUpTo(CommentaryRows, MaxRows) :
                           Len(p[1]) + Len(p[2]) <= MaxRows}}

\* an entry already stored: verse text only, commentary only, or both
StoredEntry(c, n, shape) ==
    IF shape = "T" THEN VerseRow(MergeBook, c, n, "old")
    ELSE IF shape = "C" THEN CommentaryRow(c, n, "oldc")
    ELSE Spread(VerseRow(MergeBook, c, n, "old"), [commentary_text |-> "oldc"])

RECURSIVE DataOf(_, _, _)
DataOf(c, f, n) ==
    IF n > MaxVerse THEN <<>>
    ELSE (IF f[n] = "-" THEN <<>> ELSE <<StoredEntry(c, n, f[n])>>) \o DataOf(c, f, n + 1)

\* chapter 1 holds any mix of entries, as a download or as a read-through copy;
\* each later chapter is absent, a download of the verses, or a read-through copy
ChapterChoices(c) ==
    IF c = 1
      THEN {<<f, d>> : f \in [Verses -> {"-", "T", "C", "TC"}], d \in BOOLEAN}
      ELSE {<<[n \in Verses |-> "-"], TRUE>>, <<[n \in Verses |-> "T"], TRUE>>,
            <<[n \in Verses |-> "TC"], FALSE>>}

StoreOfChoice(ch) ==
    LET present == {c \in Chapters : \E n \in Verses : ch[c][1][n] # "-"}
    IN [k \in {ChapterKey(MergeBook, c, MergeLang) : c \in present} |->
          [kind |-> "object", data |-> DataOf(k[2], ch[k[2]][1], 1), isDownloaded |-> ch[k[2]][2]]]

MergeInitialStores ==
    {StoreOfChoice(ch) : ch \in {x \in [Chapters -> UNION {ChapterChoices(c) : c \in Chapters}] :
                                    \A c \in Chapters : x[c] \in ChapterChoices(c)}}

BatchIdle == [pc |-> "idle", todo |-> <<>>, puts |-> <<>>, putsAttempted |-> 0]

InitMerge ==
    /\ store \in MergeInitialStores
    /\ db = "null"
    /\ opResult = NoResult
    /\ LoadState(<<>>, {}, 0, 0)
    /\ arg \in Payloads
    /\ batch = BatchIdle
    /\ saveResult = NoResult
    /\ readResult = NoResult
    /\ hist = [pre |-> store, after1 |-> Null, started |-> 0, errors |-> <<>>]
    /\ reader = ReaderIdle

\* ------------------------------------------- saveBookChaptersInBatch, by request
\* the call: the validation, then `await openCacheDB()`
SaveBatchCall ==
    /\ batch.pc = "idle"
    /\ hist.started < 2
    /\ hist' = [hist EXCEPT !.pre = store, !.started = @ + 1,
                            !.errors = IF NoDataProvided(arg) THEN Append(@, "NoData") ELSE @,
                            !.after1 = IF NoDataProvided(arg) /\ hist.started = 0 THEN store ELSE @]
    /\ IF NoDataProvided(arg)
         THEN /\ saveResult' = [kind |-> "save", savedCount |-> 0, error |-> "No data provided to save."]
              /\ batch' = batch
         ELSE /\ batch' = [batch EXCEPT !.pc = "open"]
              /\ saveResult' = NoResult
    /\ readResult' = NoResult
    /\ UNCHANGED <<store, db, arg, notMergeVars>>

\* the value the call returns, and the history of it
Returned(count, error) ==
    /\ saveResult' = [kind |-> "save", savedCount |-> count, error |-> error]
    /\ batch' = BatchIdle
    /\ hist' = [hist EXCEPT !.errors = Append(@, error),
                            !.after1 = IF hist.started = 1 THEN store' ELSE @]

\* openCacheDB resolves: the readwrite transaction is created and the Set of chapters built
SaveBatchOpened ==
    /\ batch.pc = "open"
    /\ db' = "open"
    /\ batch' = [pc |-> "chapters", todo |-> ChaptersOf(arg), puts |-> <<>>, putsAttempted |-> 0]
    /\ UNCHANGED <<store, saveResult, readResult, arg, hist, notMergeVars>>

\* indexedDB.open fails (no connection is held yet): the catch block returns the error
SaveBatchOpenFailed ==
    /\ batch.pc = "open"
    /\ db = "null"
    /\ UNCHANGED <<store, db, readResult, arg, notMergeVars>>
    /\ Returned(0, "IndexDB error on open")

\* a chapter loop whose put is committed on its own, outside the book's transaction
SaveBatchChapterDirect ==
    /\ batch.pc = "chapters"
    /\ LET chapterNum == Head(batch.todo)
           key == ChapterKey(MergeBook, chapterNum, MergeLang)
           existingEntry == IF key \in DOMAIN store THEN store[key] ELSE DefaultEntry
           rec == MergeChapter(existingEntry, arg.verses, arg.commentaries, chapterNum)
       IN /\ batch' = [pc |-> IF Tail(batch.todo) = <<>> THEN "commit" ELSE "chapters",
                       todo |-> Tail(batch.todo),
                       puts |-> batch.puts,
                       putsAttempted |-> batch.putsAttempted + 1]
          /\ store' = StorePut(store, key, rec)
    /\ UNCHANGED <<db, saveResult, readResult, arg, hist, notMergeVars>>

\* store.get(key) succeeds: merge, store.put, putsAttempted++
SaveBatchChapter ==
    /\ batch.pc = "chapters"
    /\ LET chapterNum == Head(batch.todo)
           key == ChapterKey(MergeBook, chapterNum, MergeLang)
           existingEntry == IF key \in DOMAIN store THEN store[key] ELSE DefaultEntry
           rec == MergeChapter(existingEntry, arg.verses, arg.commentaries, chapterNum)
       IN batch' = [pc |-> IF Tail(batch.todo) = <<>> THEN "commit" ELSE "chapters",
                    todo |-> Tail(batch.todo),
                    puts |-> StorePut(batch.puts, key, rec),
                    putsAttempted |-> batch.putsAttempted + 1]
    /\ UNCHANGED <<store, db, saveResult, readResult, arg, hist, notMergeVars>>

\* transaction.oncomplete: every put becomes visible at once
SaveBatchComplete ==
    /\ batch.pc = "commit"
    /\ store' = Commit(store, batch.puts)
    /\ Returned(batch.putsAttempted, "null")
    /\ UNCHANGED <<db, readResult, arg, notMergeVars>>

\* a request or the transaction fails: the transaction is rolled back and the
\* rejection (or the throw of the next put) reaches the catch block
SaveBatchError ==
    /\ batch.pc \in {"chapters", "commit"}
    /\ UNCHANGED <<store, db, readResult, arg, notMergeVars>>
    /\ Returned(0, "QuotaExceededError")

\* getChapter of a reader while the call is in progress: a readonly transaction
\* sees committed data only
GetChapter ==
    /\ batch.pc # "idle"
    /\ \E c \in Chapters :
         LET key == ChapterKey(MergeBook, c, MergeLang)
         IN readResult' = [kind |-> "read", key |-> key, value |-> StoreGet(store, key)]
    /\ UNCHANGED <<store, db, batch, saveResult, arg, hist, notMergeVars>>

NextMerge ==
    \/ SaveBatchCall
    \/ SaveBatchOpened
    \/ SaveBatchOpenFailed
    \/ SaveBatchChapter
    \/ SaveBatchComplete
    \/ SaveBatchError
    \/ GetChapter

SpecMerge == InitMerge /\ [][NextMerge]_vars

\* --------------------------------------------------------- claims, SpecMerge
PostStore == saveBookChaptersInBatch(hist.pre, MergeBook, MergeLang, arg)
CallReturned == batch.pc = "idle" /\ saveResult.kind = "save"
CallSucceeded == CallReturned /\ saveResult.error = "null"

\* the fields the payload carries for verse n of chapter c
CarriedFields(payload, c, n) ==
    UNION {DOMAIN payload.verses[i] :
              i \in {j \in 1..Len(payload.verses) :
                        payload.verses[j].chapter_num = c /\ payload.verses[j].verse_num = n}}
    \cup (IF \E j \in 1..Len(payload.commentaries) :
                payload.commentaries[j].chapter_num = c /\ payload.commentaries[j].verse_num = n
            THEN {"commentary_text", "chapter_num", "verse_num"} ELSE {})

\* every field of stored entry e that the payload does not carry is in rec, unchanged
EntryKept(e, c, rec) ==
    \E j \in 1..Len(rec.data) :
        /\ rec.data[j].verse_num = e.verse_num
        /\ \A f \in (DOMAIN e) \ CarriedFields(arg, c, e.verse_num) :
              f \in DOMAIN rec.data[j] /\ rec.data[j][f] = e[f]

\* C4: after a successful saveBookChaptersInBatch, every entry that was stored
\* before the call is still stored under its verse number, with every field the
\* payload does not carry for that verse unchanged: a commentary-only payload
\* keeps the verse text, a verses-only payload keeps the commentary, and verses
\* absent from the payload are kept whole.
C4_FieldPreservingMerge ==
    CallSucceeded =>
        \A key \in DOMAIN hist.pre :
            /\ key \in DOMAIN store
            /\ \A i \in 1..Len(hist.pre[key].data) :
                  EntryKept(hist.pre[key].data[i], key[2], store[key])

\* a commentary-only payload has been merged into a record that held verse text
\* for two verses, one of them not named by the payload
C4_Witness ==
    /\ CallSucceeded
    /\ arg.verses = <<>>
    /\ \E key \in DOMAIN hist.pre :
          /\ Len(hist.pre[key].data) = 2
          /\ \A i \in 1..2 : "verse_text" \in DOMAIN hist.pre[key].data[i]
          /\ \E j \in 1..Len(arg.commentaries) : arg.commentaries[j].chapter_num = key[2]
          /\ store[key] # hist.pre[key]

\* C8: saveBookChaptersInBatch is atomic per book. In every state the committed
\* records are those before the call or those of the complete merge; a getChapter
\* during the call returns one of the two; and after the return the call reports
\* either no error with savedCount = the number of distinct chapters and the
\* complete merge stored, or an error with savedCount 0 and nothing changed.
C8_BatchAtomic ==
    /\ store \in {hist.pre, PostStore}
    /\ readResult.kind = "read" =>
          readResult.value \in {StoreGet(hist.pre, readResult.key), StoreGet(PostStore, readResult.key)}
    /\ CallReturned =>
          \/ /\ saveResult.error = "null"
             /\ saveResult.savedCount = Cardinality({arg.verses[i].chapter_num : i \in 1..Len(arg.verses)}
                                                    \cup {arg.commentaries[i].chapter_num : i \in 1..Len(arg.commentaries)})
             /\ store = PostStore
          \/ /\ saveResult.error # "null"
             /\ saveResult.savedCount = 0
             /\ store = hist.pre

\* a call over two chapters has failed after its first put and changed nothing
C8_Witness ==
    /\ CallReturned
    /\ saveResult.error = "QuotaExceededError"
    /\ Len(ChaptersOf(arg)) = 2
    /\ PostStore # hist.pre
    /\ readResult.kind = "read"

\* C9: two successful calls in a row with the same payload leave the records
\* that the first call left.
C9_MergeIdempotent ==
    (batch.pc = "idle" /\ hist.started = 2 /\ hist.errors = <<"null", "null">>)
        => store = hist.after1

\* the payload has been saved twice, verses and commentary, over stored entries
C9_Witness ==
    /\ batch.pc = "idle" /\ hist.started = 2 /\ hist.errors = <<"null", "null">>
    /\ arg.verses # <<>> /\ arg.commentaries # <<>>
    /\ \E key \in DOMAIN store : Len(store[key].data) = 2

\* ------------------------------------------------------ the remote tables
Languages == <<"am", "en">>
LanguageSet == {"am", "en"}

\* the books table, in `order`; the first book fills a page of verses exactly, the
\* fifth has two pages of verses and one more, the sixth two pages of verses and
\* more commentary than verses
BookId(i) == <<"b1", "b2", "b3", "b4", "b5", "b6">>[i]
\* a book of the book list that has no row in either table
EmptyBook == "b7"
VersesInBook(bookId) ==
    CASE bookId = "b1" -> PageSize
      [] bookId = "b5" -> 2 * PageSize + 1
      [] bookId = "b6" -> 2 * PageSize
      [] bookId = EmptyBook -> 0
      [] OTHER -> 1
CommentaryInBook(bookId) ==
    IF bookId = "b6" THEN 3 * PageSize - 1 ELSE IF bookId = EmptyBook THEN 0 ELSE 1

\* verses_<language> and commentary_<language>: one chapter per book
VerseText(language) == IF language = "am" THEN "verse_am" ELSE "verse_en"
CommentaryText(language) == IF language = "am" THEN "commentary_am" ELSE "commentary_en"
RemoteVerses(bookId, language) ==
    [n \in 1..VersesInBook(bookId) |-> VerseRow(bookId, 1, n, VerseText(language))]
RemoteCommentary(bookId, language) ==
    [n \in 1..CommentaryInBook(bookId) |-> CommentaryRow(1, n, CommentaryText(language))]

\* cross_references, ordered by doc_id
RemoteCrossRefs == [n \in 1..NumCrossRefs |-> [doc_id |-> n, related_refs |-> "refs"]]

\* fetch_chapter_content: the verses of the chapter, each with its commentary or null
FetchChapterContent(bookId, chapter, language) ==
    LET verses == SelectSeq(RemoteVerses(bookId, language), LAMBDA v : v.chapter_num = chapter)
        commentaries == SelectSeq(RemoteCommentary(bookId, language), LAMBDA c : c.chapter_num = chapter)
        CommentaryOf(v) ==
            IF \E k \in 1..Len(commentaries) : commentaries[k].verse_num = v.verse_num
              THEN commentaries[CHOOSE k \in 1..Len(commentaries) :
                                   /\ commentaries[k].verse_num = v.verse_num
                                   /\ \A h \in 1..(k - 1) : commentaries[h].verse_num # v.verse_num].commentary_text
              ELSE "null"
    IN [k \in 1..Len(verses) |-> Spread(verses[k], [commentary_text |-> CommentaryOf(verses[k])])]

\* ------------------------------------------------- cache.js, call by call
CoreKey(dataType) == <<"core", dataType>>
CrossrefsType(language) == IF language = "am" THEN "crossrefs_am" ELSE "crossrefs_en"
AudioKey(bookId, chapterNum, language) == <<"audio", bookId, chapterNum, language>>

\* key.endsWith(`-${language}`), on the '-'-separated segments of the key
EndsWithLanguage(key, language) == Len(key) >= 2 /\ key[Len(key)] = language
\* key.startsWith('core-') / key.startsWith('audio-')
StartsWith(key, prefix) == Len(key) >= 2 /\ key[1] = prefix
\* storedObject?.isDownloaded === true: arrays and strings carry no such property
IsDownloadedTrue(value) == value.kind = "object" /\ value.isDownloaded = TRUE

\* a predicate that takes every key of the language, flagged or not
EndsWithLanguageOnly(key, value, language) == EndsWithLanguage(key, language)

\* the cursor's test of clearDownloadedDataForLanguage
ClearsDownloaded(key, value, language) ==
    EndsWithLanguage(key, language) /\ IsDownloadedTrue(value)

\* the cursor's test of clearTemporaryChapterCache
ClearsTemporary(key, value) ==
    /\ ~StartsWith(key, "core") /\ ~StartsWith(key, "audio")
    /\ value.kind \in {"object", "array"}
    /\ ~(value.kind = "object" /\ value.isDownloaded)

CacheBook == "b1"
CacheChapter == 1
\* the core datasets and the audio URLs that are followed
CoreTypes == {"crossrefs_am", "books"}
AudioLanguages == {"am"}

InitCache ==
    /\ store = <<>>
    /\ db = "null"
    /\ opResult = NoResult
    /\ hist = [pre |-> <<>>, after1 |-> Null, started |-> 0, errors |-> <<>>]
    /\ batch = BatchIdle
    /\ saveResult = NoResult
    /\ readResult = NoResult
    /\ arg = [verses |-> <<>>, commentaries |-> <<>>]
    /\ LoadState(<<>>, {}, 0, 0)
    /\ reader = ReaderIdle

\* openCacheDB and the transaction succeed (ok) or fail: a failed write leaves the
\* store as it was, and keeps a connection that was already open
Connection(ok) == IF ok THEN "open" ELSE db

\* how a call of a cache.js function goes: every request succeeds and the
\* transaction completes, indexedDB.open fails (openCacheDB rejects), or the
\* connection is there and a request of the transaction fails
Outcomes == {"ok", "open_failed", "request_failed"}
\* openCacheDB resolves at once with a connection it already holds
Possible(outcome) == outcome = "open_failed" => db = "null"
\* cache.js `db` after the call
Opened(outcome) == IF outcome = "open_failed" THEN "null" ELSE "open"

\* JS values handed to the save functions
Undefined == [kind |-> "undefined"]
Array(items) == [kind |-> "array", items |-> items]
String(chars) == [kind |-> "string", str |-> chars]
\* a string is kept as its characters; String.prototype.trim()
RECURSIVE TrimStart(_)
TrimStart(chars) ==
    IF chars # <<>> /\ Head(chars) = " " THEN TrimStart(Tail(chars)) ELSE chars
RECURSIVE TrimEnd(_)
TrimEnd(chars) ==
    IF chars # <<>> /\ chars[Len(chars)] = " " THEN TrimEnd(SubSeq(chars, 1, Len(chars) - 1))
    ELSE chars
Trim(chars) == TrimEnd(TrimStart(chars))

\* !versesData || !Array.isArray(versesData) || versesData.length === 0, negated
ValidVersesData(versesData) == versesData.kind = "array" /\ versesData.items # <<>>
\* !data || !Array.isArray(data), negated
ValidCoreData(data) == data.kind = "array"
\* a check that takes any string
ValidAudioUrlUntrimmed(audioUrl) == audioUrl.kind = "string"
\* !audioUrl || typeof audioUrl !== 'string' || audioUrl.trim() === '', negated
ValidAudioUrl(audioUrl) ==
    audioUrl.kind = "string" /\ audioUrl.str # <<>> /\ Trim(audioUrl.str) # <<>>

\* the values the callers of this model hand over
VersesDataInputs(language) ==
    {Undefined, [kind |-> "object"], Array(<<>>),
     Array(FetchChapterContent(CacheBook, CacheChapter, language))}
CoreDataInputs == {Null, [kind |-> "object"], Array(RemoteCrossRefs)}
AudioUrlInputs == {Undefined, [kind |-> "number"], String(<<>>), String(<<" ">>), String(<<"u">>)}

\* saveChapter(bookId, chapterNum, language, versesData, isDownloaded)
CacheSaveChapter ==
    \E language \in LanguageSet, isDownloaded \in BOOLEAN, outcome \in Outcomes :
      \E versesData \in VersesDataInputs(language) :
        LET key == ChapterKey(CacheBook, CacheChapter, language)
            valid == ValidVersesData(versesData)
            ok == valid /\ outcome = "ok"
        IN /\ Possible(outcome)
           /\ store' = IF ok THEN StorePut(store, key,
                                           [kind |-> "object", data |-> versesData.items,
                                            isDownloaded |-> isDownloaded])
                       ELSE store
           /\ db' = IF valid THEN Opened(outcome) ELSE db
           /\ opResult' = [kind |-> "saveChapter", key |-> key, value |-> ok,
                           fault |-> IF valid THEN outcome ELSE "invalid", input |-> versesData]
           /\ hist' = [hist EXCEPT !.pre = store]
           /\ UNCHANGED notCacheVars

\* saveBookChaptersInBatch(bookId, language, { verses, commentaries }), as one step
CacheSaveBook ==
    \E language \in LanguageSet, includeVerses \in BOOLEAN, includeCommentary \in BOOLEAN,
       outcome \in Outcomes :
        LET payload == [verses |-> IF includeVerses THEN RemoteVerses(CacheBook, language) ELSE <<>>,
                        commentaries |-> IF includeCommentary THEN RemoteCommentary(CacheBook, language) ELSE <<>>]
            valid == ~NoDataProvided(payload)
            ok == valid /\ outcome = "ok"
        IN /\ Possible(outcome)
           /\ store' = IF ok THEN saveBookChaptersInBatch(store, CacheBook, language, payload)
                       ELSE store
           /\ db' = IF valid THEN Opened(outcome) ELSE db
           /\ opResult' = [kind |-> "saveBook", key |-> language,
                           value |-> [savedCount |-> IF ok THEN Len(ChaptersOf(payload)) ELSE 0,
                                      error |-> IF ok THEN "null"
                                                ELSE IF valid THEN outcome
                                                ELSE "No data provided to save."],
                           fault |-> IF valid THEN outcome ELSE "invalid", input |-> payload]
           /\ hist' = [hist EXCEPT !.pre = store]
           /\ UNCHANGED notCacheVars

\* saveCoreData(dataType, data)
CacheSaveCoreData ==
    \E dataType \in CoreTypes, data \in CoreDataInputs, outcome \in Outcomes :
        LET key == CoreKey(dataType)
            valid == ValidCoreData(data)
            ok == valid /\ outcome = "ok"
        IN /\ Possible(outcome)
           /\ store' = IF ok THEN StorePut(store, key, data) ELSE store
           /\ db' = IF valid THEN Opened(outcome) ELSE db
           /\ opResult' = [kind |-> "saveCoreData", key |-> key, value |-> ok,
                           fault |-> IF valid THEN outcome ELSE "invalid", input |-> data]
           /\ hist' = [hist EXCEPT !.pre = store]
           /\ UNCHANGED notCacheVars

\* saveAudioUrl(bookId, chapterNum, language, audioUrl)
CacheSaveAudioUrl ==
    \E language \in AudioLanguages, audioUrl \in AudioUrlInputs, outcome \in Outcomes :
        LET key == AudioKey(CacheBook, CacheChapter, language)
            valid == ValidAudioUrl(audioUrl)
            ok == valid /\ outcome = "ok"
        IN /\ Possible(outcome)
           /\ store' = IF ok THEN StorePut(store, key, audioUrl) ELSE store
           /\ db' = IF valid THEN Opened(outcome) ELSE db
           /\ opResult' = [kind |-> "saveAudioUrl", key |-> key, value |-> ok,
                           fault |-> IF valid THEN outcome ELSE "invalid", input |-> audioUrl]
           /\ hist' = [hist EXCEPT !.pre = store]
           /\ UNCHANGED notCacheVars

\* the keys the cursor of clearDownloadedDataForLanguage deletes
DownloadedKeys(st, language) == {key \in DOMAIN st : ClearsDownloaded(key, st[key], language)}

\* the store after clearDownloadedDataForLanguage has committed
clearDownloadedDataForLanguage(st, language) ==
    StoreDelete(st, {CoreKey(CrossrefsType(language))} \cup DownloadedKeys(st, language))

\* clearDownloadedDataForLanguage(languageToClear): the transaction completes, or a
\* request fails after `deleted` cursor deletions and the transaction is rolled back
CacheClearDownloaded ==
    \E language \in LanguageSet, outcome \in Outcomes :
        \E deleted \in 0..Cardinality(DownloadedKeys(store, language)) :
            LET ok == outcome = "ok"
            IN /\ Possible(outcome)
               /\ ok => deleted = Cardinality(DownloadedKeys(store, language))
               /\ outcome = "open_failed" => deleted = 0
               /\ store' = IF ok THEN clearDownloadedDataForLanguage(store, language) ELSE store
               /\ db' = Opened(outcome)
               /\ opResult' = [kind |-> "clearDownloaded", key |-> language,
                               value |-> [success |-> ok, clearedCount |-> deleted],
                               fault |-> outcome]
               /\ hist' = [hist EXCEPT !.pre = store]
               /\ UNCHANGED notCacheVars

TemporaryKeys(st) == {key \in DOMAIN st : ClearsTemporary(key, st[key])}

\* clearTemporaryChapterCache()
CacheClearTemporary ==
    \E outcome \in Outcomes :
        \E deleted \in 0..Cardinality(TemporaryKeys(store)) :
            LET ok == outcome = "ok"
            IN /\ Possible(outcome)
               /\ ok => deleted = Cardinality(TemporaryKeys(store))
               /\ outcome = "open_failed" => deleted = 0
               /\ store' = IF ok THEN StoreDelete(store, TemporaryKeys(store)) ELSE store
               /\ db' = Opened(outcome)
               /\ opResult' = [kind |-> "clearTemporary", key |-> "all",
                               value |-> [success |-> ok, clearedCount |-> deleted],
                               fault |-> outcome]
               /\ hist' = [hist EXCEPT !.pre = store]
               /\ UNCHANGED notCacheVars

\* a read that hands on whatever the transaction leaves in its result
getChapterUnguarded(st, key, outcome) ==
    IF outcome = "ok" THEN StoreGet(st, key) ELSE [kind |-> "raised"]

\* getChapter: the stored value if it is an object, null otherwise and on any failure
getChapter(st, key, outcome) ==
    IF outcome = "ok" /\ StoreGet(st, key).kind \in {"object", "array"} THEN StoreGet(st, key)
    ELSE Null

\* getCoreData: event.target.result || null, null on any failure
getCoreData(st, key, outcome) ==
    IF outcome = "ok" /\ ~(StoreGet(st, key).kind = "string" /\ StoreGet(st, key).str = <<>>)
      THEN StoreGet(st, key)
      ELSE Null

\* getAudioUrl: the stored value if it is a string with more than whitespace
getAudioUrl(st, key, outcome) ==
    IF outcome = "ok" /\ StoreGet(st, key).kind = "string" /\ Trim(StoreGet(st, key).str) # <<>>
      THEN StoreGet(st, key)
      ELSE Null

\* the cursor's test of countDownloadedChaptersForLanguage
CountsDownloaded(key, value, language) ==
    /\ Len(key) >= 3 /\ key[Len(key)] = language
    /\ IsDownloadedTrue(value)
    /\ ~StartsWith(key, "core")

\* countDownloadedChaptersForLanguage: 0 on any failure, whatever was counted before it
countDownloadedChaptersForLanguage(st, language, outcome) ==
    IF outcome = "ok"
      THEN Cardinality({key \in DOMAIN st : CountsDownloaded(key, st[key], language)})
      ELSE 0

\* a read returns `value` to its caller
CacheRead(kind, key, value, outcome) ==
    /\ Possible(outcome)
    /\ db' = Opened(outcome)
    /\ opResult' = [kind |-> kind, key |-> key, value |-> value, fault |-> outcome]
    /\ hist' = [hist EXCEPT !.pre = store]

\* getChapter(bookId, chapterNum, language)
CacheGetChapter ==
    /\ \E language \in LanguageSet, outcome \in Outcomes :
          LET key == ChapterKey(CacheBook, CacheChapter, language)
          IN CacheRead("getChapter", key, getChapter(store, key, outcome), outcome)
    /\ UNCHANGED <<store, notCacheVars>>

\* getCoreData(dataType)
CacheGetCoreData ==
    /\ \E dataType \in CoreTypes, outcome \in Outcomes :
          CacheRead("getCoreData", CoreKey(dataType),
                    getCoreData(store, CoreKey(dataType), outcome), outcome)
    /\ UNCHANGED <<store, notCacheVars>>

\* getAudioUrl(bookId, chapterNum, language)
CacheGetAudioUrl ==
    /\ \E language \in AudioLanguages, outcome \in Outcomes :
          LET key == AudioKey(CacheBook, CacheChapter, language)
          IN CacheRead("getAudioUrl", key, getAudioUrl(store, key, outcome), outcome)
    /\ UNCHANGED <<store, notCacheVars>>

\* countDownloadedChaptersForLanguage(language)
CacheCountDownloaded ==
    /\ \E language \in LanguageSet, outcome \in Outcomes :
          CacheRead("countDownloaded", language,
                    countDownloadedChaptersForLanguage(store, language, outcome), outcome)
    /\ UNCHANGED <<store, notCacheVars>>

NextCache ==
    \/ CacheSaveChapter
    \/ CacheSaveBook
    \/ CacheSaveCoreData
    \/ CacheSaveAudioUrl
    \/ CacheClearDownloaded
    \/ CacheClearTemporary
    \/ CacheGetChapter
    \/ CacheGetCoreData
    \/ CacheGetAudioUrl
    \/ CacheCountDownloaded

SpecCache == InitCache /\ [][NextCache]_vars

\* --------------------------------------------------------- claims, SpecCache
ClearReturned(language) ==
    /\ opResult.kind = "clearDownloaded"
    /\ opResult.key = language
    /\ opResult.value.success

IsChapterKey(key) == Len(key) = 3
IsAudioKey(key) == key[1] = "audio"
IsCoreKey(key) == key[1] = "core"
LanguageOfKey(key) == key[Len(key)]

\* the chapter records of the language that a download wrote
FlaggedChapterKeys(st, language) ==
    {key \in DOMAIN st : IsChapterKey(key) /\ LanguageOfKey(key) = language /\ st[key].isDownloaded}

\* C10: after clearDownloadedDataForLanguage(L) has reported success, the key
\* core-crossrefs_L and every chapter record of L flagged isDownloaded are gone,
\* every other record is stored unchanged (read-through records of L, every
\* record of the other language, the other core datasets, the audio URLs), and
\* clearedCount is the number of flagged records deleted.
C10_ClearDownloadedFrame ==
    \A language \in LanguageSet :
        ClearReturned(language) =>
            LET gone == {CoreKey(CrossrefsType(language))} \cup FlaggedChapterKeys(hist.pre, language)
            IN /\ DOMAIN store = (DOMAIN hist.pre) \ gone
               /\ \A key \in DOMAIN store : store[key] = hist.pre[key]
               /\ opResult.value.clearedCount = Cardinality(FlaggedChapterKeys(hist.pre, language))

\* 'am' has been cleared in a store that held its cross-references and one
\* downloaded chapter of it; an audio URL of 'am', a downloaded chapter of 'en'
\* and the books dataset are still stored
C10_Witness ==
    /\ ClearReturned("am")
    /\ CoreKey("crossrefs_am") \in DOMAIN hist.pre
    /\ opResult.value.clearedCount = 1
    /\ AudioKey(CacheBook, CacheChapter, "am") \in DOMAIN store
    /\ CoreKey("books") \in DOMAIN store
    /\ FlaggedChapterKeys(store, "en") # {}

\* ------------------------------------------------- the gateway (orchestrator)
\* .range(offset, offset + pageSize - 1) over the ordered rows
Page(rows, page) ==
    LET first == page * PageSize + 1
        last == IF Len(rows) < (page + 1) * PageSize THEN Len(rows) ELSE (page + 1) * PageSize
    IN IF first > last THEN <<>> ELSE SubSeq(rows, first, last)

\* fetch_book_full: a query that fails leaves `data` null, which is read as no rows
FetchBookFull(bookId, language, page, includeVerses, includeCommentary, versesOk, commOk) ==
    LET dlVerses == IF includeVerses
                      THEN [ok |-> versesOk,
                            data |-> IF versesOk THEN Page(RemoteVerses(bookId, language), page) ELSE <<>>]
                      ELSE [ok |-> TRUE, data |-> <<>>]
        dlComm == IF includeCommentary
                    THEN [ok |-> commOk,
                          data |-> IF commOk THEN Page(RemoteCommentary(bookId, language), page) ELSE <<>>]
                    ELSE [ok |-> TRUE, data |-> <<>>]
        versesFull == dlVerses.ok /\ Len(dlVerses.data) = PageSize
        commFull == dlComm.ok /\ Len(dlComm.data) = PageSize
    IN [data |-> [verses |-> dlVerses.data, commentaries |-> dlComm.data,
                  hasMore |-> versesFull \/ commFull],
        error |-> "null"]

\* fetch_cross_refs: the query's error is handed on in the result
FetchCrossRefs(page, ok) ==
    LET refs == IF ok THEN Page(RemoteCrossRefs, page) ELSE <<>>
    IN [data |-> [crossrefs |-> refs, hasMore |-> ok /\ Len(refs) = PageSize],
        error |-> IF ok THEN "null" ELSE "query error"]

\* _invokeBrain: the function's result, or { data: null, error } when the invocation fails
InvokeBrain(result, transportOk) ==
    IF transportOk THEN result ELSE [data |-> Null, error |-> "invocation error"]

\* ------------------------------------------------ download.js: start()
ResourceTypes == {"bible", "commentary", "ref"}
\* `${lang}-${type}`, kept as its two segments
ResourceId(lang, type) == <<lang, type>>

\* tasks[lang]
Flags(tasks, lang) == [type \in ResourceTypes |-> ResourceId(lang, type) \in tasks]

\* ['am', 'en'].filter(lang => tasks[lang].bible || tasks[lang].commentary || tasks[lang].ref)
LanguagesToProcess(tasks) ==
    SelectSeq(Languages, LAMBDA lang : \E type \in ResourceTypes : Flags(tasks, lang)[type])

RECURSIVE SortByOrder(_)
SortByOrder(books0) ==
    With(books0, LAMBDA books :
        IF books = {} THEN <<>>
        ELSE LET first == CHOOSE b \in books : \A c \in books : b.order <= c.order
             IN <<first>> \o SortByOrder(books \ {first}))

\* Object.values(booksInfo).filter(book => book?.chapters > 0).sort((a, b) => a.order - b.order)
BooksToDownload(info) == SortByOrder({book \in info : book.chapters > 0})

RECURSIVE SumChapters(_)
SumChapters(books) ==
    IF books = <<>> THEN 0 ELSE Head(books).chapters + SumChapters(Tail(books))

CONCURRENCY_LIMIT == 3

\* what the synchronous code of a run reads and writes: its closure and currentState
Machine(r) ==
    [run |-> runs[r], isDownloading |-> isDownloading, cancelDownloadFlag |-> cancelDownloadFlag,
     downloadProgress |-> downloadProgress, downloadedResources |-> downloadedResources,
     localStorage |-> localStorage, booksInfo |-> booksInfo]

CurrentLanguage(m) == LanguagesToProcess(m.run.tasks)[m.run.langIdx]

\* currentState.downloadedResources[id] = true; localStorage.setItem('downloadedResources', ...)
MarkDownloaded(m, ids) ==
    [m EXCEPT !.downloadedResources = @ \cup ids,
              !.localStorage = SetItem(@, "downloadedResources", m.downloadedResources \cup ids),
              !.run.finalized = @ \cup ids]

\* the finally block
Finally(m) ==
    [m EXCEPT !.isDownloading = FALSE, !.cancelDownloadFlag = FALSE,
              !.run.pc = "done", !.run.books = <<>>]

RECURSIVE EnterLanguage(_)

\* a batch loop after which the ledger is left as it was
FinalizeSkipped(m0) ==
    With(m0, LAMBDA m :
        EnterLanguage([m EXCEPT !.run.langIdx = @ + 1, !.run.books = <<>>]))

\* after the batch loop: the ledger is updated if the run was neither cancelled nor failed
Finalize(m0) ==
    With(m0, LAMBDA m :
        LET lang == CurrentLanguage(m)
            flags == Flags(m.run.tasks, lang)
            ids == (IF m.run.fetchVerses \/ flags["bible"] THEN {ResourceId(lang, "bible")} ELSE {})
                   \cup (IF m.run.fetchComm \/ flags["commentary"] THEN {ResourceId(lang, "commentary")} ELSE {})
            m1 == IF ~m.cancelDownloadFlag /\ m.run.isSuccess THEN MarkDownloaded(m, ids) ELSE m
        IN EnterLanguage([m1 EXCEPT !.run.langIdx = @ + 1, !.run.books = <<>>]))

\* a book of the batch enters _downloadAndProcessBook: the progress is updated and,
\* the flag being unset, page 0 is requested
BookStarted == [st |-> "fetch", page |-> 0, verses |-> <<>>, commentaries |-> <<>>, status |-> "null"]

\* a loop that starts every remaining book at once
EnterBatchUnbounded(m0) ==
    With(m0, LAMBDA m :
        LET books == BooksToDownload(m.booksInfo)
        IN IF m.run.i > Len(books) \/ m.cancelDownloadFlag
             THEN Finalize(m)
             ELSE [m EXCEPT !.run.pc = "batch",
                            !.run.books = [k \in (m.run.i)..Len(books) |-> BookStarted],
                            !.run.started = @ \cup {<<CurrentLanguage(m), k>> : k \in (m.run.i)..Len(books)},
                            !.downloadProgress.currentBookId = books[Len(books)].id])

\* the top of the batch loop, at index run.i
EnterBatch(m0) ==
    With(m0, LAMBDA m :
        LET books == BooksToDownload(m.booksInfo)
            last == IF m.run.i + CONCURRENCY_LIMIT - 1 > Len(books)
                      THEN Len(books) ELSE m.run.i + CONCURRENCY_LIMIT - 1
        IN IF m.run.i > Len(books) \/ m.cancelDownloadFlag
             THEN Finalize(m)
             ELSE [m EXCEPT !.run.pc = "batch",
                            !.run.books = [k \in (m.run.i)..last |-> BookStarted],
                            !.run.started = @ \cup {<<CurrentLanguage(m), k>> : k \in (m.run.i)..last},
                            !.downloadProgress.currentBookId = books[last].id])

\* a books step that fetches whatever is requested, ledgered or not
EnterBooksUnchecked(m0) ==
    With(m0, LAMBDA m :
        LET lang == CurrentLanguage(m)
            flags == Flags(m.run.tasks, lang)
        IN IF flags["bible"] \/ flags["commentary"]
             THEN EnterBatch([m EXCEPT
                      !.run.fetchVerses = flags["bible"], !.run.fetchComm = flags["commentary"],
                      !.run.i = 1,
                      !.downloadProgress =
                          [language |-> lang, currentBookId |-> "null",
                           totalChaptersOverall |-> SumChapters(BooksToDownload(m.booksInfo)),
                           downloadedChaptersOverall |-> 0]])
             ELSE EnterLanguage([m EXCEPT !.run.langIdx = @ + 1]))

\* step 2 of the language loop: what needs fetching, and the first batch
EnterBooks(m0) ==
    With(m0, LAMBDA m :
        LET lang == CurrentLanguage(m)
            flags == Flags(m.run.tasks, lang)
            fetchVerses == flags["bible"] /\ ResourceId(lang, "bible") \notin m.downloadedResources
            fetchComm == flags["commentary"] /\ ResourceId(lang, "commentary") \notin m.downloadedResources
        IN IF fetchVerses \/ fetchComm
             THEN EnterBatch([m EXCEPT
                      !.run.fetchVerses = fetchVerses, !.run.fetchComm = fetchComm, !.run.i = 1,
                      !.downloadProgress =
                          [language |-> lang, currentBookId |-> "null",
                           totalChaptersOverall |-> SumChapters(BooksToDownload(m.booksInfo)),
                           downloadedChaptersOverall |-> 0]])
             ELSE EnterLanguage([m EXCEPT !.run.langIdx = @ + 1]))

\* the return of _downloadAndProcessCrossRefs
AfterCrossRefs(m, success) ==
    EnterBooks(IF success THEN MarkDownloaded(m, {ResourceId(CurrentLanguage(m), "ref")}) ELSE m)

\* the top of the language loop, at index run.langIdx
EnterLanguage(m0) ==
    With(m0, LAMBDA m :
        IF m.run.langIdx > Len(LanguagesToProcess(m.run.tasks)) \/ m.cancelDownloadFlag
          THEN Finally(m)
          ELSE IF Flags(m.run.tasks, CurrentLanguage(m))["ref"]
                 THEN [m EXCEPT !.run.pc = "ref_fetch",
                                !.run.ref = [page |-> 0, all |-> <<>>],
                                !.downloadProgress =
                                    [language |-> CurrentLanguage(m), currentBookId |-> "null",
                                     totalChaptersOverall |-> 0, downloadedChaptersOverall |-> 0]]
                 ELSE EnterBooks(m))

\* a book's _downloadAndProcessBook has returned; when it was the last of the batch,
\* Promise.all resolves and the batch loop goes on
BookDone(m, k, status) ==
    With([m EXCEPT !.run.books[k] =
                       [st |-> "done", page |-> 0, verses |-> <<>>, commentaries |-> <<>>,
                        status |-> status]],
         LAMBDA m1 :
             IF \A h \in DOMAIN m1.run.books : m1.run.books[h].st = "done"
               THEN EnterBatch([m1 EXCEPT !.run.i = @ + CONCURRENCY_LIMIT])
               ELSE m1)

\* a failure that also raises the cancellation flag
FailedAborting(m) ==
    [m EXCEPT !.run.isSuccess = FALSE, !.run.failed = TRUE, !.cancelDownloadFlag = TRUE]

\* a failed fetch or save: overallSuccessTracker.isSuccess = false
Failed(m) == [m EXCEPT !.run.isSuccess = FALSE, !.run.failed = TRUE]
\* the same for a book: the languages with a failed book are kept
BookFailed(m) == [Failed(m) EXCEPT !.run.bookFailed = @ \cup {CurrentLanguage(m)}]

\* _downloadAndProcessBook in which a fetch without rows counts as a saved book
AfterFetchEmptySaved(m, k, fetched, fetchError) ==
    IF m.cancelDownloadFlag THEN BookDone(m, k, "cancelled")
    ELSE IF fetchError # "null" THEN BookDone(BookFailed(m), k, "fetch_error")
    ELSE IF NoDataProvided(fetched) THEN BookDone(m, k, "success")
    ELSE [m EXCEPT !.run.books[k] =
                       [st |-> "save", page |-> 0, verses |-> fetched.verses,
                        commentaries |-> fetched.commentaries, status |-> "null"]]

\* download.js 46-54: fetchAllVersesForBook has returned { data: fetched, error: fetchError };
\* a payload without rows is refused by saveBookChaptersInBatch before any request
AfterFetch(m, k, fetched, fetchError) ==
    IF m.cancelDownloadFlag THEN BookDone(m, k, "cancelled")
    ELSE IF fetchError # "null" THEN BookDone(BookFailed(m), k, "fetch_error")
    ELSE IF NoDataProvided(fetched) THEN BookDone(BookFailed(m), k, "save_error")
    ELSE [m EXCEPT !.run.books[k] =
                       [st |-> "save", page |-> 0, verses |-> fetched.verses,
                        commentaries |-> fetched.commentaries, status |-> "null"]]

\* download.js 56-67: saveBookChaptersInBatch has returned { savedCount, error }
AfterSave(m, k, savedCount, error) ==
    IF m.cancelDownloadFlag THEN BookDone(m, k, "cancelled")
    ELSE IF error # "null"
      THEN BookDone([BookFailed(m) EXCEPT !.run.quotaAt =
                        IF error = "QuotaExceededError" /\ @ = 0 THEN k ELSE @],
                    k, "save_error")
    ELSE BookDone([m EXCEPT !.downloadProgress.downloadedChaptersOverall = @ + savedCount],
                  k, "success")

\* a loop that never polls onCancel()
FetchAllVersesPageUnpolled(loop, response, onCancel) ==
    LET allVerses == loop.verses \o response.data.verses
        allComm == loop.commentaries \o response.data.commentaries
    IN IF response.error # "null"
         THEN [returned |-> TRUE, page |-> loop.page, verses |-> <<>>, commentaries |-> <<>>,
               error |-> response.error]
         ELSE [returned |-> ~response.data.hasMore,
               page |-> IF response.data.hasMore THEN loop.page + 1 ELSE loop.page,
               verses |-> allVerses, commentaries |-> allComm, error |-> "null"]

\* a loop that keeps the rows of the page just received only
FetchAllVersesPageLast(loop, response, onCancel) ==
    IF response.error # "null"
      THEN [returned |-> TRUE, page |-> loop.page, verses |-> <<>>, commentaries |-> <<>>,
            error |-> response.error]
      ELSE [returned |-> ~response.data.hasMore \/ onCancel,
            page |-> IF response.data.hasMore /\ ~onCancel THEN loop.page + 1 ELSE loop.page,
            verses |-> IF response.data.hasMore /\ onCancel THEN <<>> ELSE response.data.verses,
            commentaries |-> IF response.data.hasMore /\ onCancel THEN <<>>
                             ELSE response.data.commentaries,
            error |-> IF response.data.hasMore /\ onCancel THEN "Cancelled" ELSE "null"]

\* fetchAllVersesForBook 1402-1413, from the arrival of a page to the next await or
\* the return: `loop` holds page, allVerses and allComm; without rows when data is null
FetchAllVersesPage(loop, response, onCancel) ==
    LET allVerses == loop.verses \o response.data.verses
        allComm == loop.commentaries \o response.data.commentaries
        Return(verses, comm, error) ==
            [returned |-> TRUE, page |-> loop.page, verses |-> verses, commentaries |-> comm,
             error |-> error]
    IN IF response.error # "null" THEN Return(<<>>, <<>>, response.error)
       ELSE IF response.data.hasMore
         THEN IF onCancel
                THEN Return(<<>>, <<>>, "Cancelled")
                ELSE [returned |-> FALSE, page |-> loop.page + 1, verses |-> allVerses,
                      commentaries |-> allComm, error |-> "null"]
         ELSE Return(allVerses, allComm, "null")

\* a page of book k has arrived in run m
AfterBookPage(m, k, response) ==
    LET s == FetchAllVersesPage(m.run.books[k], response, m.cancelDownloadFlag)
    IN IF s.returned
         THEN AfterFetch(m, k, [verses |-> s.verses, commentaries |-> s.commentaries], s.error)
         ELSE [m EXCEPT !.run.books[k] =
                            [st |-> "fetch", page |-> s.page, verses |-> s.verses,
                             commentaries |-> s.commentaries, status |-> "null"]]

\* fetchAllCrossRefs 1476-1482, from the arrival of a page to the next await or the
\* return: `loop` holds page and allCrossrefs
FetchAllCrossRefsPage(loop, response, onCancel) ==
    LET all == loop.all \o response.data.crossrefs
    IN IF response.error # "null"
         THEN [returned |-> TRUE, page |-> loop.page, all |-> <<>>, error |-> response.error]
       ELSE IF response.data.hasMore
         THEN IF onCancel
                THEN [returned |-> TRUE, page |-> loop.page, all |-> <<>>, error |-> "Cancelled"]
                ELSE [returned |-> FALSE, page |-> loop.page + 1, all |-> all, error |-> "null"]
         ELSE [returned |-> TRUE, page |-> loop.page, all |-> all, error |-> "null"]

\* _downloadAndProcessCrossRefs 79-98: a page of cross-references has arrived in run m
AfterCrossRefsPage(m, response) ==
    LET s == FetchAllCrossRefsPage(m.run.ref, response, m.cancelDownloadFlag)
    IN IF ~s.returned THEN [m EXCEPT !.run.ref = [page |-> s.page, all |-> s.all]]
       ELSE IF m.cancelDownloadFlag THEN AfterCrossRefs(m, FALSE)
       ELSE IF s.error # "null" THEN AfterCrossRefs(Failed(m), FALSE)
       ELSE IF s.all = <<>> THEN AfterCrossRefs(m, TRUE)
       ELSE [m EXCEPT !.run.pc = "ref_save", !.run.ref = [page |-> s.page, all |-> s.all]]

\* -------------------------------- the paginated fetches, called on their own
\* the books whose fetch is followed: one page, a page filled exactly, two pages and
\* a row, more commentary than verses
FetchBooks == {"b1", "b2", "b5", "b6"}

InitFetch ==
    /\ store = <<>>
    /\ db = "null"
    /\ batch = BatchIdle
    /\ saveResult = NoResult
    /\ readResult = NoResult
    /\ arg = [verses |-> <<>>, commentaries |-> <<>>]
    /\ opResult = NoResult
    /\ hist = [pre |-> <<>>, after1 |-> Null, started |-> 0, errors |-> <<>>]
    /\ LoadState(<<>>, {}, 0, 0)
    /\ reader = ReaderIdle

notFetchVars == <<cacheVars, mergeVars, opResult, hist, isDownloading, cancelDownloadFlag,
                  downloadProgress, downloadedResources, downloadedLanguages,
                  downloadedBooksByLanguage, globalCrossRefsMapByLang, booksInfo, localStorage,
                  runs, reader, audio, env>>

\* the head of the while loop at the call: onCancel() is polled, then page 0 is requested
FetchCalled(f) ==
    IF f.onCancel
      THEN [f EXCEPT !.pc = "returned", !.cancelAt = 0,
                     !.result = [kind |-> "fetch", data |-> Null, error |-> "Cancelled"]]
      ELSE [f EXCEPT !.pc = "await", !.requests = <<0>>]

\* fetchAllVersesForBook({ bookId, language, onCancel, includeVerses, includeCommentary })
FetchBookCall ==
    /\ fetch.pc \in {"idle", "returned"}
    /\ \E bookId \in FetchBooks, language \in LanguageSet, onCancel \in BOOLEAN,
          includeVerses \in BOOLEAN, includeCommentary \in BOOLEAN :
          /\ includeVerses \/ includeCommentary
          /\ fetch' = FetchCalled([FetchIdle EXCEPT !.fn = "book", !.bookId = bookId,
                                      !.language = language, !.includeVerses = includeVerses,
                                      !.includeCommentary = includeCommentary,
                                      !.onCancel = onCancel])
    /\ UNCHANGED notFetchVars

\* fetchAllCrossRefs({ onCancel, onProgress })
FetchCrossRefsCall ==
    /\ fetch.pc \in {"idle", "returned"}
    /\ \E onCancel \in BOOLEAN :
          fetch' = FetchCalled([FetchIdle EXCEPT !.fn = "refs", !.onCancel = onCancel])
    /\ UNCHANGED notFetchVars

\* onCancel() begins to return true while a page is awaited
OnCancelTurnsTrue ==
    /\ fetch.pc = "await"
    /\ ~fetch.onCancel
    /\ fetch' = [fetch EXCEPT !.onCancel = TRUE, !.cancelAt = Len(fetch.requests)]
    /\ UNCHANGED notFetchVars

\* the call after a response has been handled: the next page is requested, or it returns
FetchResumed(f, returned, page, error, data, response, faulty) ==
    LET hasMore == IF response.error = "null" THEN response.data.hasMore ELSE f.hasMore
        g == [f EXCEPT !.page = page, !.hasMore = hasMore,
                       !.faults = IF faulty THEN @ + 1 ELSE @]
    IN IF returned
         THEN [g EXCEPT !.pc = "returned",
                        !.result = [kind |-> "fetch",
                                    data |-> IF error = "null" THEN data ELSE Null,
                                    error |-> error]]
         ELSE [g EXCEPT !.requests = Append(@, page)]

\* the response to fetch_book_full arrives
FetchBookResponse ==
    /\ fetch.pc = "await"
    /\ fetch.fn = "book"
    /\ \E transportOk \in BOOLEAN, versesOk \in BOOLEAN, commOk \in BOOLEAN :
          LET result == FetchBookFull(fetch.bookId, fetch.language, fetch.page,
                                      fetch.includeVerses, fetch.includeCommentary, versesOk, commOk)
              response == InvokeBrain(result, transportOk)
              s == FetchAllVersesPage(fetch, response, fetch.onCancel)
              g == [fetch EXCEPT !.verses = s.verses, !.commentaries = s.commentaries]
          IN /\ ~transportOk => (versesOk /\ commOk)
             /\ ~fetch.includeVerses => versesOk
             /\ ~fetch.includeCommentary => commOk
             /\ fetch' = FetchResumed(g, s.returned, s.page, s.error,
                                      [kind |-> "object", verses |-> s.verses,
                                       commentaries |-> s.commentaries],
                                      response, ~(transportOk /\ versesOk /\ commOk))
    /\ UNCHANGED notFetchVars

\* the response to fetch_cross_refs arrives
FetchCrossRefsResponse ==
    /\ fetch.pc = "await"
    /\ fetch.fn = "refs"
    /\ \E transportOk \in BOOLEAN, ok \in BOOLEAN :
          LET response == InvokeBrain(FetchCrossRefs(fetch.page, ok), transportOk)
              s == FetchAllCrossRefsPage(fetch, response, fetch.onCancel)
          IN /\ ~transportOk => ok
             /\ fetch' = FetchResumed([fetch EXCEPT !.all = s.all], s.returned, s.page, s.error,
                                      [kind |-> "array", items |-> s.all],
                                      response, ~(transportOk /\ ok))
    /\ UNCHANGED notFetchVars

NextFetch ==
    \/ FetchBookCall
    \/ FetchCrossRefsCall
    \/ OnCancelTurnsTrue
    \/ FetchBookResponse
    \/ FetchCrossRefsResponse

SpecFetch == InitFetch /\ [][NextFetch]_vars

\* the variables after the synchronous code of run r has run to its next await
Continue(r, m0) ==
    \E m \in {m0} :
        /\ runs' = [runs EXCEPT ![r] = m.run]
        /\ isDownloading' = m.isDownloading
        /\ cancelDownloadFlag' = m.cancelDownloadFlag
        /\ downloadProgress' = m.downloadProgress
        /\ downloadedResources' = m.downloadedResources
        /\ localStorage' = m.localStorage

\* ------------------------------------------------------ download.js, step by step
\* the resource lists a caller hands to start()
StartRequests ==
    {{ResourceId("am", "bible")},
     {ResourceId("am", "commentary")},
     {ResourceId("am", "ref")},
     {ResourceId("am", "bible"), ResourceId("am", "commentary")},
     {ResourceId("am", "bible"), ResourceId("en", "bible")},
     {ResourceId("am", "ref"), ResourceId("am", "bible"), ResourceId("en", "ref")}}

\* booksInfo as loaded: n books of one chapter each, and an entry without chapters
BooksInfo(n) ==
    {[id |-> BookId(k), chapters |-> 1, order |-> k] : k \in 1..n}
    \cup {[id |-> "intro", chapters |-> 0, order |-> 0]}

InFlight(r) == runs[r].pc \notin {"idle", "done"}
FreeSlot(r) == ~InFlight(r) /\ \A q \in RunIds : q < r => InFlight(q)

\* n more faults are injected, if that many are left
Fault(n) ==
    /\ n <= env.faults
    /\ env' = [env EXCEPT !.faults = @ - n]

InitDownload ==
    /\ store = <<>>
    /\ db = "null"
    /\ batch = BatchIdle
    /\ saveResult = NoResult
    /\ readResult = NoResult
    /\ arg = [verses |-> <<>>, commentaries |-> <<>>]
    /\ opResult = NoResult
    /\ hist = [pre |-> <<>>, after1 |-> Null, started |-> 0, errors |-> <<>>]
    /\ LoadState(<<>>, BooksInfo(NumBooks), MaxStarts, MaxFaults)
    /\ reader = ReaderIdle

\* start(resourcesToDownload) with no download in progress: up to its first await
Start ==
    /\ ~isDownloading
    /\ env.starts > 0
    /\ \E r \in RunIds, resourcesToDownload \in StartRequests :
          /\ FreeSlot(r)
          /\ Continue(r, EnterLanguage(
                 [Machine(r) EXCEPT !.isDownloading = TRUE, !.cancelDownloadFlag = FALSE,
                                    !.run = [IdleRun EXCEPT !.tasks = resourcesToDownload,
                                                            !.langIdx = 1]]))
    /\ env' = [env EXCEPT !.starts = @ - 1]
    /\ UNCHANGED <<cacheVars, mergeVars, opResult, hist, downloadedLanguages,
                   downloadedBooksByLanguage, globalCrossRefsMapByLang, booksInfo, fetch, reader, audio>>

\* start() while isDownloading: the guard returns
StartWhileDownloading ==
    /\ isDownloading
    /\ UNCHANGED vars

\* cancel()
Cancel ==
    /\ isDownloading
    /\ cancelDownloadFlag' = TRUE
    /\ runs' = [r \in RunIds |-> IF InFlight(r) THEN [runs[r] EXCEPT !.cancelled = TRUE] ELSE runs[r]]
    /\ UNCHANGED <<cacheVars, mergeVars, opResult, hist, isDownloading, downloadProgress,
                   downloadedResources, downloadedLanguages, downloadedBooksByLanguage,
                   globalCrossRefsMapByLang, booksInfo, localStorage, fetch, reader, audio, env>>

\* what a step of a run leaves alone, the store apart
runFrame == <<mergeVars, opResult, hist, downloadedLanguages, downloadedBooksByLanguage,
              globalCrossRefsMapByLang, booksInfo, fetch, reader, audio>>

\* the response to fetch_cross_refs arrives
CrossRefsResponse(r) ==
    /\ runs[r].pc = "ref_fetch"
    /\ \E transportOk \in BOOLEAN, ok \in BOOLEAN :
          /\ ~transportOk => ok
          /\ Fault(IF transportOk /\ ok THEN 0 ELSE 1)
          /\ Continue(r, AfterCrossRefsPage(Machine(r),
                            InvokeBrain(FetchCrossRefs(runs[r].ref.page, ok), transportOk)))
    /\ UNCHANGED <<cacheVars, runFrame>>

\* saveCoreData(`crossrefs_${language}`, allCrossrefs) returns
CrossRefsSaved(r) ==
    /\ runs[r].pc = "ref_save"
    /\ \E ok \in BOOLEAN :
          LET m == Machine(r)
              key == CoreKey(CrossrefsType(CurrentLanguage(m)))
          IN /\ Fault(IF ok THEN 0 ELSE 1)
             /\ store' = IF ok THEN StorePut(store, key, [kind |-> "array", items |-> m.run.ref.all])
                         ELSE store
             /\ db' = Connection(ok)
             /\ Continue(r, AfterCrossRefs(IF ok THEN m ELSE Failed(m), ok))
    /\ UNCHANGED runFrame

\* the response to fetch_book_full for book k of the batch arrives
BookPageResponse(r, k) ==
    /\ runs[r].pc = "batch"
    /\ k \in DOMAIN runs[r].books
    /\ runs[r].books[k].st = "fetch"
    /\ \E transportOk \in BOOLEAN, versesOk \in BOOLEAN, commOk \in BOOLEAN :
          LET m == Machine(r)
              bookId == BooksToDownload(booksInfo)[k].id
              result == FetchBookFull(bookId, CurrentLanguage(m), m.run.books[k].page,
                                      m.run.fetchVerses, m.run.fetchComm, versesOk, commOk)
          IN /\ ~transportOk => (versesOk /\ commOk)
             /\ ~m.run.fetchVerses => versesOk
             /\ ~m.run.fetchComm => commOk
             /\ Fault((IF transportOk THEN 0 ELSE 1) + (IF versesOk THEN 0 ELSE 1)
                      + (IF commOk THEN 0 ELSE 1))
             /\ Continue(r, AfterBookPage(m, k, InvokeBrain(result, transportOk)))
    /\ UNCHANGED <<cacheVars, runFrame>>

SaveErrors == {"QuotaExceededError", "UnknownError"}

\* saveBookChaptersInBatch for book k of the batch returns
BookSaved(r, k) ==
    /\ runs[r].pc = "batch"
    /\ k \in DOMAIN runs[r].books
    /\ runs[r].books[k].st = "save"
    /\ \E error \in {"null"} \cup SaveErrors :
          LET m == Machine(r)
              bookId == BooksToDownload(booksInfo)[k].id
              payload == [verses |-> m.run.books[k].verses,
                          commentaries |-> m.run.books[k].commentaries]
          IN /\ Fault(IF error = "null" THEN 0 ELSE 1)
             /\ store' = IF error = "null"
                           THEN saveBookChaptersInBatch(store, bookId, CurrentLanguage(m), payload)
                           ELSE store
             /\ db' = Connection(error = "null")
             /\ Continue(r, AfterSave(m, k, IF error = "null" THEN Len(ChaptersOf(payload)) ELSE 0,
                                      error))
    /\ UNCHANGED runFrame

\* clear(): the clear button is disabled while isDownloading (updateDownloadUI);
\* opResult keeps what clearDownloadedDataForLanguage(language) returned to it
Clear ==
    /\ ~isDownloading
    /\ env.clears > 0
    /\ \E language \in LanguageSet, ok \in BOOLEAN :
          /\ (~ok) => env.faults > 0
          /\ env' = [env EXCEPT !.clears = @ - 1, !.faults = IF ok THEN @ ELSE @ - 1]
          /\ store' = IF ok THEN clearDownloadedDataForLanguage(store, language) ELSE store
          /\ db' = Connection(ok)
          /\ downloadedBooksByLanguage' = MapSet(downloadedBooksByLanguage, language, <<>>)
          /\ downloadedLanguages' = downloadedLanguages \ {language}
          /\ globalCrossRefsMapByLang' = [globalCrossRefsMapByLang EXCEPT ![language] = Null]
          /\ localStorage' =
                SetItem(SetItem(localStorage, "downloadedBooksByLanguage", downloadedBooksByLanguage'),
                        "downloadedLanguages", downloadedLanguages')
          /\ opResult' = [kind |-> "clearDownloaded", key |-> language,
                          value |-> [success |-> ok,
                                     clearedCount |-> IF ok THEN Cardinality(DownloadedKeys(store, language))
                                                      ELSE 0],
                          fault |-> IF ok THEN "ok" ELSE "request_failed"]
    /\ UNCHANGED <<mergeVars, hist, isDownloading, cancelDownloadFlag, downloadProgress,
                   downloadedResources, booksInfo, runs, fetch, reader, audio>>

Next ==
    \/ Start
    \/ StartWhileDownloading
    \/ Cancel
    \/ \E r \in RunIds : CrossRefsResponse(r)
    \/ \E r \in RunIds : CrossRefsSaved(r)
    \/ \E r \in RunIds : \E k \in 1..NumBooks : BookPageResponse(r, k)
    \/ \E r \in RunIds : \E k \in 1..NumBooks : BookSaved(r, k)
    \/ Clear

Spec == InitDownload /\ [][Next]_vars

\* ----------------------------------- download.js with transactions that abort
\* the transaction of saveCoreData aborts without an error event (a failed commit):
\* neither oncomplete nor onerror fires (cache.js 137-143, no onabort), the promise
\* stays pending and _downloadAndProcessCrossRefs never resumes
CrossRefsSaveAborted(r) ==
    /\ runs[r].pc = "ref_save"
    /\ Fault(1)
    /\ db' = "open"
    /\ runs' = [runs EXCEPT ![r].pc = "ref_pending"]
    /\ UNCHANGED <<store, runFrame, isDownloading, cancelDownloadFlag, downloadProgress,
                   downloadedResources, localStorage>>

\* the same for the transaction of saveBookChaptersInBatch (cache.js 339-342):
\* the book's _downloadAndProcessBook never resumes, and Promise.all with it
BookSaveAborted(r, k) ==
    /\ runs[r].pc = "batch"
    /\ k \in DOMAIN runs[r].books
    /\ runs[r].books[k].st = "save"
    /\ Fault(1)
    /\ db' = "open"
    /\ runs' = [runs EXCEPT ![r].books[k].st = "pending"]
    /\ UNCHANGED <<store, runFrame, isDownloading, cancelDownloadFlag, downloadProgress,
                   downloadedResources, localStorage>>

NextLive ==
    \/ Next
    \/ \E r \in RunIds : CrossRefsSaveAborted(r)
    \/ \E r \in RunIds : \E k \in 1..NumBooks : BookSaveAborted(r, k)

\* a step of a run: a response arrives or a transaction ends
RunStep ==
    \E r \in RunIds :
        \/ CrossRefsResponse(r)
        \/ CrossRefsSaved(r) \/ CrossRefsSaveAborted(r)
        \/ \E k \in 1..NumBooks : BookPageResponse(r, k) \/ BookSaved(r, k) \/ BookSaveAborted(r, k)

\* every network request resolves and every storage transaction ends: while a run
\* awaits something, one of the things awaited arrives
RequestsEnd == WF_vars(RunStep)

SpecLive == InitDownload /\ [][NextLive]_vars /\ RequestsEnd

\* ------------------------------------- the reading view beside a download
\* books in booksInfo, runs, failures, chapter loads and map lookups
NumBooksReader == 1
MaxStartsReader == 1
MaxFaultsReader == 1
MaxLoads == 2
MaxLookups == 2

\* the chapter the reading view and the reference search ask for
ReaderBook == BookId(1)
ReaderChapter == 1
ReaderLanguages == {"am"}

InitReader ==
    /\ store = <<>>
    /\ db = "null"
    /\ batch = BatchIdle
    /\ saveResult = NoResult
    /\ readResult = NoResult
    /\ arg = [verses |-> <<>>, commentaries |-> <<>>]
    /\ opResult = NoResult
    /\ hist = [pre |-> <<>>, after1 |-> Null, started |-> 0, errors |-> <<>>]
    /\ LoadState(<<>>, BooksInfo(NumBooksReader), MaxStartsReader, MaxFaultsReader)
    /\ reader = [ReaderIdle EXCEPT !.loads = MaxLoads, !.lookups = MaxLookups]

\* what a step of the reading view leaves alone, the store and the map apart
readerFrame == <<mergeVars, hist, isDownloading, cancelDownloadFlag, downloadProgress,
                 downloadedResources, downloadedLanguages, downloadedBooksByLanguage,
                 booksInfo, localStorage, runs, fetch, audio>>

\* what _loadChapterContent and _findReference hand on: versesData, or the error
Loaded(versesData, error) == [kind |-> "chapter", data |-> versesData, error |-> error]

\* _loadChapterContent 199-207 and _findReference 383-386, up to the await of
\* api.fetchChapterContent: (await cache.getChapter(bookId, chapterNum, lang))?.data
\* is used if there is one
LoadChapterCall ==
    /\ reader.pc \in {"idle", "done"}
    /\ reader.loads > 0
    /\ \E fn \in {"load", "find"}, language \in ReaderLanguages, ok \in BOOLEAN :
          LET key == ChapterKey(ReaderBook, ReaderChapter, language)
              entry == getChapter(store, key, IF ok THEN "ok" ELSE "request_failed")
              called == [reader EXCEPT !.fn = fn, !.bookId = ReaderBook, !.chapter = ReaderChapter,
                                       !.language = language, !.loads = @ - 1]
          IN /\ Fault(IF ok THEN 0 ELSE 1)
             /\ db' = Connection(ok)
             /\ reader' = IF entry.kind = "object"
                            THEN [called EXCEPT !.pc = "done", !.result = Loaded(entry.data, "null")]
                            ELSE [called EXCEPT !.pc = "fetch", !.result = NoResult]
    /\ UNCHANGED <<store, opResult, globalCrossRefsMapByLang, readerFrame>>

\* fetchChapterContent has returned { data, error }: _loadChapterContent 208-213
\* throws on an error or on no rows, _findReference 386-390 goes on without data;
\* both hand the rows to cache.saveChapter(bookId, chapter, lang, versesData, false),
\* which is not awaited. Its transaction is ordered by its creation, here.
LoadChapterFetched ==
    /\ reader.pc = "fetch"
    /\ \E transportOk \in BOOLEAN, queryOk \in BOOLEAN, putOk \in BOOLEAN :
          LET key == ChapterKey(reader.bookId, reader.chapter, reader.language)
              fetchedData == FetchChapterContent(reader.bookId, reader.chapter, reader.language)
              error == IF ~transportOk THEN "FunctionsError"
                       ELSE IF ~queryOk THEN "PostgrestError" ELSE "null"
              saves == error = "null" /\ ValidVersesData(Array(fetchedData))
          IN /\ ~transportOk => queryOk
             /\ ~saves => putOk
             /\ Fault((IF error = "null" THEN 0 ELSE 1) + (IF putOk THEN 0 ELSE 1))
             /\ store' = IF saves /\ putOk
                           THEN StorePut(store, key, [kind |-> "object", data |-> fetchedData,
                                                      isDownloaded |-> FALSE])
                           ELSE store
             /\ db' = IF saves THEN Connection(putOk) ELSE db
             /\ reader' = [reader EXCEPT
                              !.pc = "done",
                              !.result = IF error # "null" THEN Loaded(Null, error)
                                         ELSE IF fetchedData = <<>> THEN Loaded(Null, "No content found")
                                         ELSE Loaded(fetchedData, "null")]
    /\ UNCHANGED <<opResult, globalCrossRefsMapByLang, readerFrame>>

\* the Map built from a cached cross-reference dataset: doc_id -> true
CrossRefMap(cachedData) ==
    [kind |-> "map",
     ids |-> IF cachedData.kind = "array"
               THEN {cachedData.items[k].doc_id : k \in 1..Len(cachedData.items)}
               ELSE {}]

\* _getOrBuildGlobalCrossRefMap 265-282: the map kept in currentState if it is a
\* Map, else one built from cache.getCoreData(`crossrefs_${language}`) and kept
GetOrBuildGlobalCrossRefMap(maps, st, language, outcome) ==
    IF maps[language].kind = "map" THEN maps[language]
    ELSE CrossRefMap(getCoreData(st, CoreKey(CrossrefsType(language)), outcome))

\* _getCrossRefMapForChapter 248-262: the global map if it has entries, else the
\* doc_ids that fetchChapterCrossRefIds returns for the chapter
LookupCrossRefMap ==
    /\ reader.lookups > 0
    /\ \E language \in ReaderLanguages, ok \in BOOLEAN, netOk \in BOOLEAN :
          LET built == globalCrossRefsMapByLang[language].kind # "map"
              globalLangMap == GetOrBuildGlobalCrossRefMap(globalCrossRefsMapByLang, store, language,
                                                           IF ok THEN "ok" ELSE "request_failed")
              fallback == globalLangMap.ids = {}
          IN /\ ~built => ok
             /\ ~fallback => netOk
             /\ Fault((IF ok THEN 0 ELSE 1) + (IF netOk THEN 0 ELSE 1))
             /\ db' = IF built THEN Connection(ok) ELSE db
             /\ globalCrossRefsMapByLang' = [globalCrossRefsMapByLang EXCEPT ![language] = globalLangMap]
             /\ opResult' = [kind |-> "crossRefMap", key |-> language,
                             value |-> IF fallback
                                         THEN [source |-> "network",
                                               ids |-> IF netOk THEN CrossRefMap(Array(RemoteCrossRefs)).ids
                                                       ELSE {}]
                                         ELSE [source |-> "global", ids |-> globalLangMap.ids],
                             fault |-> IF ok /\ netOk THEN "ok" ELSE "request_failed"]
             /\ reader' = [reader EXCEPT !.lookups = @ - 1]
    /\ UNCHANGED <<store, readerFrame>>

NextReader ==
    \/ Start
    \/ StartWhileDownloading
    \/ Cancel
    \/ \E r \in RunIds : CrossRefsResponse(r)
    \/ \E r \in RunIds : CrossRefsSaved(r)
    \/ \E r \in RunIds : \E k \in 1..NumBooksReader : BookPageResponse(r, k)
    \/ \E r \in RunIds : \E k \in 1..NumBooksReader : BookSaved(r, k)
    \/ Clear
    \/ LoadChapterCall
    \/ LoadChapterFetched
    \/ LookupCrossRefMap

SpecReader == InitReader /\ [][NextReader]_vars

\* ------------------------------------- the per-book workflow of api.js (download)
NumBooksLedger == 2
MaxStartsLedger == 2
MaxFaultsLedger == 1

\* Array.prototype.includes
Includes(list, e) == \E n \in DOMAIN list : list[n] = e

\* currentState.downloadedBooksByLanguage[language] || []
ListedBooks(byLanguage, language) ==
    IF language \in DOMAIN byLanguage THEN byLanguage[language] ELSE <<>>

\* what the code of the per-book workflow reads and writes between two awaits
MachineV1(r) ==
    [run |-> runs[r], cancelDownloadFlag |-> cancelDownloadFlag,
     downloadProgress |-> downloadProgress, listed |-> downloadedBooksByLanguage,
     pending |-> FALSE]

\* _downloadAndProcessBook returns for book k
BookDoneV1(v, k, status) ==
    [v EXCEPT !.run.books[k] = [@ EXCEPT !.st = "done", !.status = status]]

\* _downloadAndProcessBook without the test of the list of downloaded books
EnterBookV1Unlisted(v, k, bookInfo) ==
    [v EXCEPT !.downloadProgress.currentBookId = bookInfo.id,
              !.run.books = Append(@, [st |-> "fetch", page |-> 0, verses |-> <<>>,
                                        commentaries |-> <<>>, status |-> "null"])]

\* _downloadAndProcessBook, from its call to its first await: a book already
\* listed for the language is counted and not requested
EnterBookV1(v, k, bookInfo) ==
    LET v1 == [v EXCEPT !.downloadProgress.currentBookId = bookInfo.id,
                        !.run.books = Append(@, [st |-> "fetch", page |-> 0, verses |-> <<>>,
                                                  commentaries |-> <<>>, status |-> "null"])]
    IN IF v1.cancelDownloadFlag THEN BookDoneV1(v1, k, "cancelled")
       ELSE IF Includes(ListedBooks(v1.listed, v1.run.language), bookInfo.id)
              THEN BookDoneV1([v1 EXCEPT !.downloadProgress.downloadedChaptersOverall =
                                             @ + bookInfo.chapters,
                                         !.run.booksDownloadedInThisRun =
                                             Append(@, bookInfo.id)],
                              k, "skipped")
       ELSE v1

\* batch.map(book => _downloadAndProcessBook(book, ...)): the calls in order
RECURSIVE EnterBooksV1(_, _, _)
EnterBooksV1(v, k, last) ==
    IF k > last THEN v
    ELSE EnterBooksV1(EnterBookV1(v, k, BooksToDownload(booksInfo)[k]), k + 1, last)

\* the batch loop of start(): the next batch is entered unless the run is
\* cancelled; after the last one the run goes on to update the lists
RECURSIVE EnterBatchV1(_)
EnterBatchV1(v) ==
    LET books == BooksToDownload(booksInfo)
        i == v.run.i
        last == IF i + CONCURRENCY_LIMIT < Len(books) THEN i + CONCURRENCY_LIMIT ELSE Len(books)
    IN IF i >= Len(books) \/ v.cancelDownloadFlag
         THEN [v EXCEPT !.run.pc = "v1_lists", !.pending = FALSE]
       ELSE LET entered == EnterBooksV1([v EXCEPT !.run.pc = "v1_batch"], i + 1, last)
            IN IF \A k \in (i + 1)..last : entered.run.books[k].st = "done"
                 THEN EnterBatchV1([entered EXCEPT !.run.i = last])
               ELSE entered

\* Promise.all of the batch resolves when its last book has returned
AfterBookV1(v) ==
    LET books == BooksToDownload(booksInfo)
    IN IF \A k \in DOMAIN v.run.books : v.run.books[k].st = "done"
         THEN EnterBatchV1([v EXCEPT !.run.i = Len(v.run.books)])
       ELSE v

\* start(), after the batch loop: the books of this run join the list of the
\* language, the language is complete when every book is listed and the
\* cross-references succeeded, both lists are persisted and the cross-reference
\* map of the language is dropped; the run then awaits the chapter count
UpdateListsV1(r, v) ==
    IF v.run.pc # "v1_lists"
      THEN UNCHANGED <<downloadedBooksByLanguage, downloadedLanguages, localStorage,
                       globalCrossRefsMapByLang>>
    ELSE LET language == v.run.language
             before == ListedBooks(downloadedBooksByLanguage, language)
             added == SelectSeq(v.run.booksDownloadedInThisRun,
                                LAMBDA id : ~Includes(before, id))
             books == BooksToDownload(booksInfo)
             isLangComplete ==
                 /\ \A k \in DOMAIN books : Includes(before \o added, books[k].id)
                 /\ v.run.crossrefsSuccess
         IN /\ downloadedBooksByLanguage' =
                   MapSet(downloadedBooksByLanguage, language, before \o added)
            /\ downloadedLanguages' = IF isLangComplete
                                        THEN downloadedLanguages \cup {language}
                                        ELSE downloadedLanguages \ {language}
            /\ localStorage' =
                   SetItem(SetItem(localStorage, "downloadedBooksByLanguage",
                                   downloadedBooksByLanguage'),
                           "downloadedLanguages", downloadedLanguages')
            /\ globalCrossRefsMapByLang' = [globalCrossRefsMapByLang EXCEPT ![language] = Null]

ContinueV1(r, v0) ==
    \E v \in {v0} :
        /\ runs' = [runs EXCEPT ![r] = v.run]
        /\ cancelDownloadFlag' = v.cancelDownloadFlag
        /\ downloadProgress' = v.downloadProgress
        /\ UpdateListsV1(r, v)

v1Frame == <<mergeVars, opResult, hist, isDownloading, downloadedResources, booksInfo,
             fetch, reader, audio>>

\* start() of the per-book workflow, up to the request for the cross-references
StartV1 ==
    /\ ~isDownloading
    /\ env.starts > 0
    /\ booksInfo # {}
    /\ \E r \in RunIds, language \in LanguageSet :
          /\ FreeSlot(r)
          /\ runs' = [runs EXCEPT ![r] = [IdleRun EXCEPT !.pc = "v1_refs",
                                                         !.language = language]]
          /\ downloadProgress' =
                 [language |-> language, currentBookId |-> "null",
                  totalChaptersOverall |-> SumChapters(BooksToDownload(booksInfo)),
                  downloadedChaptersOverall |-> 0]
    /\ isDownloading' = TRUE
    /\ cancelDownloadFlag' = FALSE
    /\ env' = [env EXCEPT !.starts = @ - 1]
    /\ UNCHANGED <<cacheVars, mergeVars, opResult, hist, downloadedResources,
                   downloadedLanguages, downloadedBooksByLanguage, globalCrossRefsMapByLang,
                   booksInfo, localStorage, fetch, reader, audio>>

\* _downloadAndProcessCrossRefs returns: the cross-references were fetched and
\* saved, or the fetch or the save failed, or the run was cancelled meanwhile
CrossRefsDoneV1(r) ==
    /\ runs[r].pc = "v1_refs"
    /\ \E outcome \in {"saved", "fetch_error", "save_failed"} :
          LET v == MachineV1(r)
              saved == outcome = "saved"
              key == CoreKey(CrossrefsType(v.run.language))
              success == saved /\ ~cancelDownloadFlag
          IN /\ Fault(IF saved THEN 0 ELSE 1)
             /\ store' = IF saved THEN StorePut(store, key, Array(RemoteCrossRefs)) ELSE store
             /\ db' = Connection(outcome # "save_failed")
             /\ ContinueV1(r, EnterBatchV1(
                    [v EXCEPT !.run.crossrefsSuccess = success,
                              !.run.isSuccess = @ /\ (saved \/ cancelDownloadFlag)]))
    /\ UNCHANGED v1Frame

\* fetchAllVersesForBook returns for book k of the batch
BookFetchedV1(r, k) ==
    /\ runs[r].pc = "v1_batch"
    /\ k \in DOMAIN runs[r].books
    /\ runs[r].books[k].st = "fetch"
    /\ \E ok \in BOOLEAN :
          LET v == MachineV1(r)
              bookId == BooksToDownload(booksInfo)[k].id
              allVersesForBook == IF ok THEN RemoteVerses(bookId, v.run.language) ELSE <<>>
          IN /\ Fault(IF ok THEN 0 ELSE 1)
             /\ ContinueV1(r,
                    IF v.cancelDownloadFlag THEN AfterBookV1(BookDoneV1(v, k, "cancelled"))
                    ELSE IF ~ok
                           THEN AfterBookV1(BookDoneV1([v EXCEPT !.run.isSuccess = FALSE],
                                                       k, "fetch_error"))
                    ELSE IF allVersesForBook = <<>>
                           THEN AfterBookV1(BookDoneV1(v, k, "no_data"))
                    ELSE [v EXCEPT !.run.books[k].st = "save",
                                   !.run.books[k].verses = allVersesForBook])
    /\ UNCHANGED <<cacheVars, v1Frame>>

\* cache.saveBookChaptersInBatch returns for book k of the batch
BookSavedV1(r, k) ==
    /\ runs[r].pc = "v1_batch"
    /\ k \in DOMAIN runs[r].books
    /\ runs[r].books[k].st = "save"
    /\ \E error \in {"null"} \cup SaveErrors :
          LET v == MachineV1(r)
              bookInfo == BooksToDownload(booksInfo)[k]
              payload == [verses |-> v.run.books[k].verses, commentaries |-> <<>>]
              savedCount == Len(ChaptersOf(payload))
          IN /\ Fault(IF error = "null" THEN 0 ELSE 1)
             /\ store' = IF error = "null"
                           THEN saveBookChaptersInBatch(store, bookInfo.id, v.run.language, payload)
                           ELSE store
             /\ db' = Connection(error = "null")
             /\ ContinueV1(r,
                    IF v.cancelDownloadFlag THEN AfterBookV1(BookDoneV1(v, k, "cancelled"))
                    ELSE IF error # "null"
                           THEN AfterBookV1(BookDoneV1(
                                    [v EXCEPT !.run.isSuccess = FALSE,
                                              !.cancelDownloadFlag =
                                                  @ \/ error = "QuotaExceededError"],
                                    k, "save_error"))
                    ELSE AfterBookV1(BookDoneV1(
                             [v EXCEPT !.downloadProgress.downloadedChaptersOverall =
                                           @ + savedCount,
                                       !.run.booksDownloadedInThisRun =
                                           IF savedCount >= bookInfo.chapters
                                             THEN Append(@, bookInfo.id) ELSE @,
                                       !.run.isSuccess = @ /\ savedCount >= bookInfo.chapters],
                             k, "success")))
    /\ UNCHANGED v1Frame

\* countDownloadedChaptersForLanguage returns, the final message is shown and
\* the finally block of start() runs
ReturnedV1(r) ==
    /\ runs[r].pc = "v1_lists"
    /\ runs' = [runs EXCEPT ![r].pc = "done"]
    /\ isDownloading' = FALSE
    /\ cancelDownloadFlag' = FALSE
    /\ UNCHANGED <<cacheVars, mergeVars, opResult, hist, downloadProgress, downloadedResources,
                   downloadedLanguages, downloadedBooksByLanguage, globalCrossRefsMapByLang,
                   booksInfo, localStorage, fetch, reader, audio, env>>

InitLedger ==
    /\ store = <<>>
    /\ db = "null"
    /\ batch = BatchIdle
    /\ saveResult = NoResult
    /\ readResult = NoResult
    /\ arg = [verses |-> <<>>, commentaries |-> <<>>]
    /\ opResult = NoResult
    /\ hist = [pre |-> <<>>, after1 |-> Null, started |-> 0, errors |-> <<>>]
    /\ LoadState(<<>>, BooksInfo(NumBooksLedger), MaxStartsLedger, MaxFaultsLedger)
    /\ reader = ReaderIdle

NextLedger ==
    \/ Start
    \/ StartWhileDownloading
    \/ Cancel
    \/ \E r \in RunIds : CrossRefsResponse(r)
    \/ \E r \in RunIds : CrossRefsSaved(r)
    \/ \E r \in RunIds : \E k \in 1..NumBooksLedger : BookPageResponse(r, k)
    \/ \E r \in RunIds : \E k \in 1..NumBooksLedger : BookSaved(r, k)
    \/ StartV1
    \/ \E r \in RunIds : CrossRefsDoneV1(r)
    \/ \E r \in RunIds : \E k \in 1..NumBooksLedger : BookFetchedV1(r, k)
    \/ \E r \in RunIds : \E k \in 1..NumBooksLedger : BookSavedV1(r, k)
    \/ \E r \in RunIds : ReturnedV1(r)

SpecLedger == InitLedger /\ [][NextLedger]_vars

\* ------------------------------------- a book list with a book that has no rows
NumBooksSparse == 2
MaxStartsSparse == 1
MaxFaultsSparse == 1

SparseBooksInfo ==
    BooksInfo(NumBooksSparse - 1) \cup {[id |-> EmptyBook, chapters |-> 1, order |-> NumBooksSparse]}

InitSparse ==
    /\ store = <<>>
    /\ db = "null"
    /\ batch = BatchIdle
    /\ saveResult = NoResult
    /\ readResult = NoResult
    /\ arg = [verses |-> <<>>, commentaries |-> <<>>]
    /\ opResult = NoResult
    /\ hist = [pre |-> <<>>, after1 |-> Null, started |-> 0, errors |-> <<>>]
    /\ LoadState(<<>>, SparseBooksInfo, MaxStartsSparse, MaxFaultsSparse)
    /\ reader = ReaderIdle

NextSparse ==
    \/ Start
    \/ StartWhileDownloading
    \/ Cancel
    \/ \E r \in RunIds : CrossRefsResponse(r)
    \/ \E r \in RunIds : CrossRefsSaved(r)
    \/ \E r \in RunIds : \E k \in 1..NumBooksSparse : BookPageResponse(r, k)
    \/ \E r \in RunIds : \E k \in 1..NumBooksSparse : BookSaved(r, k)

SpecSparse == InitSparse /\ [][NextSparse]_vars

\* ------------------------------------------------ the audio player (audio.js)
MaxFaultsAudio == 2

AudioLanguage == "am"
\* audio_tracks.audio_url of the chapter, and the URL the table held before, whose
\* file is gone
RemoteAudioUrl == String(<<"u">>)
StaleAudioUrl == String(<<"o">>)

\* saveAudioUrl: the store after the call
saveAudioUrl(st, key, audioUrl, outcome) ==
    IF ValidAudioUrl(audioUrl) /\ outcome = "ok" THEN StorePut(st, key, audioUrl) ELSE st

\* stop(): the element loses its source, nothing is loaded
Stopped(a) ==
    [a EXCEPT !.src = Null, !.loadedUrl = Null, !.loadedBookId = "null", !.loadedChapter = 0]

\* updateViewContext, up to the read of the cache in _fetchUrl
EnterViewContext(a, bookId, chapter) ==
    [a EXCEPT !.currentViewBookId = bookId, !.currentViewChapter = chapter,
              !.currentViewAudioUrl = Null, !.currentViewAudioReady = FALSE,
              !.pc = "get", !.source = "none"]

\* updateViewContext, after _fetchUrl has returned { url, source }
ViewContextUpdated(a, url, source) ==
    [a EXCEPT !.currentViewAudioUrl = IF url # Null THEN url ELSE @,
              !.currentViewAudioReady = IF url # Null THEN TRUE ELSE @,
              !.pc = "idle", !.source = source, !.failedUrl = Null,
              !.bookId = "null", !.chapter = 0]

audioFrame == <<mergeVars, opResult, hist, isDownloading, cancelDownloadFlag, downloadProgress,
                downloadedResources, downloadedLanguages, downloadedBooksByLanguage,
                globalCrossRefsMapByLang, booksInfo, localStorage, runs, fetch, reader>>

InitAudio ==
    /\ store \in {<<>>,
                  StorePut(<<>>, AudioKey(CacheBook, CacheChapter, AudioLanguage), StaleAudioUrl),
                  StorePut(<<>>, AudioKey(CacheBook, CacheChapter, AudioLanguage), RemoteAudioUrl)}
    /\ db = "null"
    /\ batch = BatchIdle
    /\ saveResult = NoResult
    /\ readResult = NoResult
    /\ arg = [verses |-> <<>>, commentaries |-> <<>>]
    /\ opResult = NoResult
    /\ hist = [pre |-> <<>>, after1 |-> Null, started |-> 0, errors |-> <<>>]
    /\ LoadState(<<>>, BooksInfo(1), 0, MaxFaultsAudio)
    /\ reader = ReaderIdle

\* the reading view shows the chapter, or the player is opened: updateViewContext
UpdateViewContext ==
    /\ audio.pc = "idle"
    /\ audio' = [EnterViewContext(audio, CacheBook, CacheChapter) EXCEPT !.healing = FALSE]
    /\ UNCHANGED <<cacheVars, env, audioFrame>>

\* _fetchUrl: cache.getAudioUrl has returned; a URL from the cache is used,
\* otherwise the table is asked
AudioCacheRead ==
    /\ audio.pc = "get"
    /\ \E ok \in BOOLEAN :
          LET key == AudioKey(audio.currentViewBookId, audio.currentViewChapter, AudioLanguage)
              cachedUrl == getAudioUrl(store, key, IF ok THEN "ok" ELSE "request_failed")
          IN /\ Fault(IF ok THEN 0 ELSE 1)
             /\ db' = Connection(ok)
             /\ audio' = IF cachedUrl # Null
                           THEN ViewContextUpdated(audio, cachedUrl, "cache")
                           ELSE [audio EXCEPT !.pc = "net"]
    /\ UNCHANGED <<store, audioFrame>>

\* _fetchUrl: api.fetchAudioUrl has returned; a URL is handed to cache.saveAudioUrl,
\* which is not awaited
AudioUrlFetched ==
    /\ audio.pc = "net"
    /\ \E ok \in BOOLEAN, putOk \in BOOLEAN :
          LET key == AudioKey(audio.currentViewBookId, audio.currentViewChapter, AudioLanguage)
          IN /\ ~ok => putOk
             /\ Fault((IF ok THEN 0 ELSE 1) + (IF putOk THEN 0 ELSE 1))
             /\ store' = IF ok THEN saveAudioUrl(store, key, RemoteAudioUrl,
                                                 IF putOk THEN "ok" ELSE "request_failed")
                         ELSE store
             /\ db' = IF ok THEN Connection(putOk) ELSE db
             /\ audio' = IF ok THEN ViewContextUpdated(audio, RemoteAudioUrl, "network")
                         ELSE ViewContextUpdated(audio, Null, "none")
    /\ UNCHANGED audioFrame

\* play() with nothing loaded: the URL of the view becomes the element's source
Play ==
    /\ audio.pc = "idle"
    /\ audio.src = Null
    /\ audio.currentViewAudioReady
    /\ audio.currentViewAudioUrl # Null
    /\ audio' = [Stopped(audio) EXCEPT !.loadedUrl = audio.currentViewAudioUrl,
                                       !.loadedBookId = audio.currentViewBookId,
                                       !.loadedChapter = audio.currentViewChapter,
                                       !.src = audio.currentViewAudioUrl]
    /\ UNCHANGED <<cacheVars, env, audioFrame>>

\* the element's 'error' event: the file of the stale URL cannot be loaded, the
\* file of the current URL only when the network fails; the handler stops the
\* player and reads the cache
PlaybackError ==
    /\ audio.pc = "idle"
    /\ audio.src # Null
    /\ Fault(IF audio.src = StaleAudioUrl THEN 0 ELSE 1)
    /\ audio' = IF audio.loadedBookId # "null" /\ audio.loadedChapter # 0
                  THEN [Stopped(audio) EXCEPT !.pc = "heal_get", !.failedUrl = audio.loadedUrl,
                                              !.bookId = audio.loadedBookId,
                                              !.chapter = audio.loadedChapter]
                  ELSE Stopped(audio)
    /\ UNCHANGED <<cacheVars, audioFrame>>

\* the handler, after cache.getAudioUrl: when the URL that failed is the cached
\* one, saveAudioUrl(bookId, chapter, language, null) is awaited and
\* updateViewContext is run again
HealCacheRead ==
    /\ audio.pc = "heal_get"
    /\ \E ok \in BOOLEAN :
          LET key == AudioKey(audio.bookId, audio.chapter, AudioLanguage)
              cachedUrl == getAudioUrl(store, key, IF ok THEN "ok" ELSE "request_failed")
              clears == audio.failedUrl # Null /\ cachedUrl = audio.failedUrl
          IN /\ Fault(IF ok THEN 0 ELSE 1)
             /\ db' = Connection(ok)
             /\ store' = IF clears THEN saveAudioUrl(store, key, Null, "ok") ELSE store
             /\ audio' = IF clears
                           THEN [EnterViewContext(audio, audio.bookId, audio.chapter)
                                    EXCEPT !.healing = TRUE]
                           ELSE [audio EXCEPT !.pc = "idle", !.failedUrl = Null,
                                              !.bookId = "null", !.chapter = 0]
    /\ UNCHANGED audioFrame

NextAudio ==
    \/ UpdateViewContext
    \/ AudioCacheRead
    \/ AudioUrlFetched
    \/ Play
    \/ PlaybackError
    \/ HealCacheRead

SpecAudio == InitAudio /\ [][NextAudio]_vars

\* ------------------------------------------- the application around download.js
\* _clearAllData(): the settings keys are removed, the deletion of the database is
\* requested (it waits for the open connection to close) and the runtime state is reset
ClearAll ==
    /\ localStorage' = RemoveItems(localStorage, {"downloadedLanguages", "downloadedBooksByLanguage"})
    /\ IF db = "open"
         THEN /\ env' = [env EXCEPT !.deletePending = TRUE]
              /\ store' = store
         ELSE /\ store' = <<>>
              /\ env' = env
    /\ downloadedLanguages' = {}
    /\ downloadedBooksByLanguage' = <<>>
    /\ isDownloading' = FALSE
    /\ globalCrossRefsMapByLang' = [l \in LanguageSet |-> Null]
    /\ UNCHANGED <<db, mergeVars, opResult, hist, cancelDownloadFlag, downloadProgress,
                   downloadedResources, booksInfo, runs, fetch, reader, audio>>

\* the page is loaded again: the connection closes, a pending deletion goes through,
\* every run is gone and currentState is built from the durable settings
Reload ==
    /\ store' = IF env.deletePending THEN <<>> ELSE store
    /\ db' = "null"
    /\ env' = [env EXCEPT !.deletePending = FALSE]
    /\ isDownloading' = FALSE
    /\ cancelDownloadFlag' = FALSE
    /\ downloadProgress' = InitialProgress
    /\ downloadedResources' = LoadLedger(localStorage)
    /\ downloadedLanguages' = GetItem(localStorage, "downloadedLanguages", {})
    /\ downloadedBooksByLanguage' = GetItem(localStorage, "downloadedBooksByLanguage", <<>>)
    /\ globalCrossRefsMapByLang' = [l \in LanguageSet |-> Null]
    /\ runs' = [r \in RunIds |-> IdleRun]
    /\ UNCHANGED <<mergeVars, opResult, hist, booksInfo, localStorage, fetch, reader, audio>>

InitApp ==
    /\ store = <<>>
    /\ db = "null"
    /\ batch = BatchIdle
    /\ saveResult = NoResult
    /\ readResult = NoResult
    /\ arg = [verses |-> <<>>, commentaries |-> <<>>]
    /\ opResult = NoResult
    /\ hist = [pre |-> <<>>, after1 |-> Null, started |-> 0, errors |-> <<>>]
    /\ LoadState(<<>>, BooksInfo(NumBooksApp), MaxStartsApp, MaxFaultsApp)
    /\ reader = ReaderIdle

NextApp ==
    \/ Start
    \/ StartWhileDownloading
    \/ Cancel
    \/ \E r \in RunIds : CrossRefsResponse(r)
    \/ \E r \in RunIds : CrossRefsSaved(r)
    \/ \E r \in RunIds : \E k \in 1..NumBooksApp : BookPageResponse(r, k)
    \/ \E r \in RunIds : \E k \in 1..NumBooksApp : BookSaved(r, k)
    \/ Clear
    \/ ClearAll
    \/ Reload

SpecApp == InitApp /\ [][NextApp]_vars

\* ------------------------------------------------- claims, Spec and SpecApp
BookResourceIds == {ResourceId(lang, type) : lang \in LanguageSet, type \in {"bible", "commentary"}}

\* the chapter records of every targeted book are stored and flagged as downloaded
BooksStored(lang) ==
    \A k \in 1..Len(BooksToDownload(booksInfo)) :
        LET book == BooksToDownload(booksInfo)[k]
        IN \A c \in 1..book.chapters :
              /\ ChapterKey(book.id, c, lang) \in DOMAIN store
              /\ IsDownloadedTrue(store[ChapterKey(book.id, c, lang)])

\* C1: ledger consistency. Whenever the ledger records '<lang>-bible' or
\* '<lang>-commentary', the chapter records of every targeted book of that language
\* are in the store with isDownloaded = true; whenever it records '<lang>-ref', the
\* cross-reference dataset of that language is in the store.
C1_LedgerConsistent ==
    \A lang \in LanguageSet :
        /\ (ResourceId(lang, "bible") \in downloadedResources
            \/ ResourceId(lang, "commentary") \in downloadedResources) => BooksStored(lang)
        /\ ResourceId(lang, "ref") \in downloadedResources
              => CoreKey(CrossrefsType(lang)) \in DOMAIN store

\* C2: a run that has been cancelled, or in which a fetch or a store write has
\* failed, sets no bible or commentary entry of the ledger from then on, and no
\* entry of the ledger that is true ever becomes false.
C2_TroubledRunLeavesLedger ==
    [][/\ \A r \in RunIds :
             (runs'[r].cancelled \/ runs'[r].failed)
                 => (runs'[r].finalized \cap BookResourceIds) \subseteq runs[r].finalized
       /\ downloadedResources \subseteq downloadedResources']_vars

\* the run in slot r has just returned
RunEnds(r) == InFlight(r) /\ runs'[r].pc = "done"
\* start() has returned in this step without an await
RunStartsAndEnds(r) == env'.starts < env.starts /\ FreeSlot(r) /\ runs'[r].pc = "done"

\* C3: when a run in which cancel was never invoked and no fetch and no store
\* write failed returns, every resource it was asked for is true in the ledger, in
\* memory and in the durable settings.
C3_SuccessfulRunMarksAll ==
    [][\A r \in RunIds :
          ((RunEnds(r) \/ RunStartsAndEnds(r)) /\ ~runs'[r].cancelled /\ ~runs'[r].failed)
              => /\ runs'[r].tasks \subseteq downloadedResources'
                 /\ runs'[r].tasks \subseteq GetItem(localStorage', "downloadedResources", {})]_vars

\* a run over both languages has returned without cancellation or failure, having
\* fetched and saved every book, and its three resources are in the ledger
C3_Witness ==
    \E r \in RunIds :
        /\ runs[r].pc = "done" /\ ~runs[r].cancelled /\ ~runs[r].failed
        /\ runs[r].tasks = {ResourceId("am", "ref"), ResourceId("am", "bible"), ResourceId("en", "ref")}
        /\ runs[r].tasks \subseteq downloadedResources
        /\ BooksStored("am")
        /\ env.faults = MaxFaults

\* run r issues a gateway request in this step: for a page of book k, for a page of cross-references
BookRequest(r, k) ==
    /\ runs'[r].pc = "batch"
    /\ k \in DOMAIN runs'[r].books
    /\ runs'[r].books[k].st = "fetch"
    /\ ~(/\ runs[r].pc = "batch"
         /\ runs[r].langIdx = runs'[r].langIdx
         /\ k \in DOMAIN runs[r].books
         /\ runs[r].books[k].st = "fetch"
         /\ runs[r].books[k].page = runs'[r].books[k].page)
CrossRefsRequest(r) ==
    /\ runs'[r].pc = "ref_fetch"
    /\ ~(/\ runs[r].pc = "ref_fetch"
         /\ runs[r].langIdx = runs'[r].langIdx
         /\ runs[r].ref.page = runs'[r].ref.page)

\* C5: once cancel() has set the flag during a run, that run issues no further
\* gateway request: no page of a book, no page of cross-references.
C5_NoRequestAfterCancel ==
    [][\A r \in RunIds :
          (InFlight(r) /\ runs[r].cancelled)
              => /\ ~CrossRefsRequest(r)
                 /\ \A k \in 1..(NumBooks + 1) : ~BookRequest(r, k)]_vars

\* C6: when the merge-save of book N fails with a quota error, the cancellation
\* flag is set (unless the run returns in the same step), and from then on no page
\* is requested for book N+1 or any later book.
C6_QuotaEscalation ==
    [][\A r \in RunIds :
          /\ (runs[r].quotaAt = 0 /\ runs'[r].quotaAt > 0 /\ runs'[r].pc # "done")
                => cancelDownloadFlag'
          /\ (InFlight(r) /\ runs'[r].quotaAt > 0)
                => \A k \in 1..(NumBooks + 1) : k > runs'[r].quotaAt => ~BookRequest(r, k)]_vars

\* C7: at most one run is in flight: a start() that passes the guard does so with
\* no run in flight, and any other start() changes nothing.
C7_SingleRun ==
    [][env'.starts < env.starts => \A r \in RunIds : ~InFlight(r)]_vars

\* clear() returns in this step, having been called for language L
ClearCompletes(L) == env'.clears < env.clears /\ opResult'.key = L

\* C11: when clear for language L completes, the entries 'L-bible', 'L-commentary'
\* and 'L-ref' of the ledger are false in memory and in the durable settings, the
\* V1 entries of L are reset (no book listed, L not in downloadedLanguages) and
\* the cross-reference map of L is null.
C11_ClearResetsLedger ==
    [][\A L \in LanguageSet :
          ClearCompletes(L)
              => /\ \A type \in ResourceTypes :
                       /\ ResourceId(L, type) \notin downloadedResources'
                       /\ ResourceId(L, type) \notin GetItem(localStorage', "downloadedResources", {})
                 /\ MapGet(downloadedBooksByLanguage', L) = <<>>
                 /\ L \notin downloadedLanguages'
                 /\ globalCrossRefsMapByLang'[L] = Null]_vars

\* ------------------------------------------------------- claims, SpecFetch
\* the rows the remote holds for the call in progress
FetchVerses == IF fetch.includeVerses THEN RemoteVerses(fetch.bookId, fetch.language) ELSE <<>>
FetchCommentary ==
    IF fetch.includeCommentary THEN RemoteCommentary(fetch.bookId, fetch.language) ELSE <<>>

\* the number of responses that fill a page, with verses or with commentary
FullPages ==
    LET v == Len(FetchVerses) \div PageSize
        c == Len(FetchCommentary) \div PageSize
    IN IF v > c THEN v ELSE c

RECURSIVE ConcatPages(_, _)
ConcatPages(rows, pages) ==
    IF pages = <<>> THEN <<>> ELSE Page(rows, Head(pages)) \o ConcatPages(rows, Tail(pages))

BookFetchReturned == fetch.pc = "returned" /\ fetch.fn = "book"

\* C12: pagination termination. When the remote answers a fetchAllVersesForBook
\* with N full pages and then a shorter one (no failure, no cancellation), the call
\* has requested the pages 0, 1, .., N, exactly N+1 requests in increasing order,
\* and returns without error the rows of these pages concatenated in that order.
C12_PaginationTerminates ==
    (BookFetchReturned /\ fetch.faults = 0 /\ fetch.cancelAt = -1)
        => /\ fetch.requests = [i \in 1..(FullPages + 1) |-> i - 1]
           /\ fetch.result.error = "null"
           /\ fetch.result.data.verses = ConcatPages(FetchVerses, fetch.requests)
           /\ fetch.result.data.commentaries = ConcatPages(FetchCommentary, fetch.requests)

\* the book with two full pages of verses and commentary beyond them has been
\* fetched in three requests, and every row of it is returned
C12_Witness ==
    /\ BookFetchReturned /\ fetch.faults = 0 /\ fetch.cancelAt = -1
    /\ fetch.bookId = "b6" /\ fetch.includeVerses /\ fetch.includeCommentary
    /\ fetch.requests = <<0, 1, 2>>
    /\ Len(fetch.result.data.verses) = 2 * PageSize
    /\ Len(fetch.result.data.commentaries) = 3 * PageSize - 1

\* a paginated fetch has returned, onCancel() having begun to return true at some point
CancelledFetchReturned == fetch.pc = "returned" /\ fetch.cancelAt >= 0
FetchFailed == fetch.result.error # "null" /\ fetch.result.data = Null

\* C13 as stated: if onCancel() starts returning true after k pages of a paginated
\* fetch have been requested, the call issues no more than k requests in total and
\* returns an error result with data null (here for calls in which no request fails).
C13_CancelledFetchFails ==
    (CancelledFetchReturned /\ fetch.faults = 0)
        => /\ Len(fetch.requests) <= fetch.cancelAt
           /\ FetchFailed

\* C13, amended: if onCancel() starts returning true after k pages have been
\* requested, the call issues no more than k requests in total; it returns an error
\* result with data null unless the response to page k reports that no rows are
\* left (hasMore false), in which case the loop ends without polling onCancel()
\* again and the call returns the rows it has accumulated, without error.
C13_CancelMidPagination ==
    CancelledFetchReturned
        => /\ Len(fetch.requests) <= fetch.cancelAt
           /\ IF fetch.hasMore
                THEN FetchFailed
                ELSE /\ fetch.result.error = "null"
                     /\ fetch.fn = "book" =>
                           /\ fetch.result.data.verses = fetch.verses
                           /\ fetch.result.data.commentaries = fetch.commentaries
                     /\ fetch.fn = "refs" => fetch.result.data.items = fetch.all

\* onCancel() turned true after the second of three pages of a book was requested:
\* two requests were issued and the call returned "Cancelled" without data
C13_Witness ==
    /\ CancelledFetchReturned
    /\ fetch.fn = "book" /\ fetch.bookId = "b5" /\ fetch.includeVerses
    /\ fetch.cancelAt = 2
    /\ fetch.requests = <<0, 1>>
    /\ fetch.faults = 0
    /\ fetch.result.error = "Cancelled" /\ fetch.result.data = Null

\* C14: if the transport or a query fails for a page of a book's verses or
\* commentary, fetchAllVersesForBook requests no further page and returns a
\* non-null error: it never goes on, and never returns a success result, after a
\* response that carried a failure.
C14_FailurePropagates ==
    (fetch.fn = "book" /\ fetch.faults > 0)
        => /\ fetch.pc = "returned"
           /\ FetchFailed

\* the books of run r that are between the start of their fetch and the end of their save
ActiveBooks(r) == {k \in DOMAIN runs[r].books : runs[r].books[k].st \in {"fetch", "save"}}
\* the batch a book belongs to, by its place in booksToDownload
BatchOf(k) == (k - 1) \div CONCURRENCY_LIMIT
\* book k of run r enters _downloadAndProcessBook in this step
BookStarts(r, k) ==
    /\ runs'[r].pc = "batch"
    /\ k \in DOMAIN runs'[r].books
    /\ ~(runs[r].pc = "batch" /\ runs[r].langIdx = runs'[r].langIdx /\ k \in DOMAIN runs[r].books)

\* C15: bounded concurrency. At every moment of a run at most 3 of its books are
\* between the start of their fetch and the end of their merge-save, all of them of
\* one batch; and a book starts only in a step after which no book of an earlier
\* batch is still under way, at most the one book whose response this step handles
\* having been under way before it.
C15_BoundedConcurrency ==
    [][\A r \in RunIds :
          /\ Cardinality(ActiveBooks(r))' <= 3
          /\ \A k, h \in DOMAIN runs'[r].books : BatchOf(k) = BatchOf(h)
          /\ \A k \in 1..(NumBooks + 1) :
                BookStarts(r, k) => Cardinality(ActiveBooks(r)) <= 1]_vars

\* three books of the first batch are under way at once, one of them already in
\* its merge-save while the others are still being fetched
C15_Witness ==
    \E r \in RunIds :
        /\ runs[r].pc = "batch"
        /\ ActiveBooks(r) = {1, 2, 3}
        /\ runs[r].books[2].st = "save"
        /\ runs[r].books[1].st = "fetch" /\ runs[r].books[3].st = "fetch"

\* ------------------------------------------- claims, SpecCache: failures
\* the last call of a cache.js function met a failure of the storage engine
CallFailed == opResult.kind # "none" /\ opResult.fault \in {"open_failed", "request_failed"}
Reads == {"getChapter", "getCoreData", "getAudioUrl"}
BooleanWrites == {"saveChapter", "saveCoreData", "saveAudioUrl"}
Clears == {"clearDownloaded", "clearTemporary"}

\* C16: store failure semantics. When opening the database fails or a request of
\* the transaction fails, a read returns the miss value (getChapter, getCoreData,
\* getAudioUrl: null; countDownloadedChaptersForLanguage: 0) and a write its
\* failure value (saveChapter, saveCoreData, saveAudioUrl: false;
\* saveBookChaptersInBatch: savedCount 0 and an error; the clear operations:
\* success false); the call returns one of these and raises nothing, and the
\* store is as it was before the call.
C16_StoreFailureSemantics ==
    CallFailed
        => /\ opResult.kind \in Reads => opResult.value = Null
           /\ opResult.kind = "countDownloaded" => opResult.value = 0
           /\ opResult.kind \in BooleanWrites => opResult.value = FALSE
           /\ opResult.kind = "saveBook"
                 => opResult.value.savedCount = 0 /\ opResult.value.error # "null"
           /\ opResult.kind \in Clears => opResult.value.success = FALSE
           /\ opResult.kind \in Reads \cup BooleanWrites \cup Clears \cup {"countDownloaded", "saveBook"}
           /\ store = hist.pre

\* getChapter has met a failed request on a key whose downloaded record is stored,
\* and has returned null
C16_Witness ==
    /\ CallFailed
    /\ opResult.kind = "getChapter"
    /\ opResult.fault = "request_failed"
    /\ opResult.key \in DOMAIN store
    /\ IsDownloadedTrue(store[opResult.key])
    /\ opResult.value = Null

\* ------------------------------------------ claims, SpecCache: validation
\* the payload of the last call is one the save function is to refuse
MissingOrEmptyList(v) == v.kind # "array" \/ v.items = <<>>
NotAnArray(v) == v.kind # "array"
NoRows(payload) == Len(payload.verses) = 0 /\ Len(payload.commentaries) = 0
BlankUrl(v) == v.kind # "string" \/ \A i \in 1..Len(v.str) : v.str[i] = " "

\* C17: validation rejection. saveChapter with a missing, non-array or empty verse
\* list returns false; saveCoreData with a non-array returns false;
\* saveBookChaptersInBatch with no verses and no commentaries returns an error with
\* savedCount 0; saveAudioUrl with a missing, non-string, empty or whitespace-only
\* URL returns false; each of these leaves the store unchanged, and the store
\* never holds an empty or whitespace-only audio URL.
C17_ValidationRejects ==
    /\ (opResult.kind = "saveChapter" /\ MissingOrEmptyList(opResult.input))
          => opResult.value = FALSE /\ store = hist.pre
    /\ (opResult.kind = "saveCoreData" /\ NotAnArray(opResult.input))
          => opResult.value = FALSE /\ store = hist.pre
    /\ (opResult.kind = "saveBook" /\ NoRows(opResult.input))
          => /\ opResult.value.savedCount = 0 /\ opResult.value.error # "null"
             /\ store = hist.pre
    /\ (opResult.kind = "saveAudioUrl" /\ BlankUrl(opResult.input))
          => opResult.value = FALSE /\ store = hist.pre
    /\ \A key \in DOMAIN store :
          IsAudioKey(key) => store[key].kind = "string" /\ ~BlankUrl(store[key])

\* saveAudioUrl has refused a whitespace-only URL for a key that holds a URL, which
\* is still stored
C17_Witness ==
    /\ opResult.kind = "saveAudioUrl"
    /\ opResult.input = String(<<" ">>)
    /\ opResult.value = FALSE
    /\ opResult.key \in DOMAIN store
    /\ store[opResult.key] = String(<<"u">>)

\* ------------------------------------------------ claims, SpecApp: reload
\* the application starts again in this step
Reloads == (\A r \in RunIds : runs'[r] = IdleRun) /\ (\E r \in RunIds : runs[r] # IdleRun)
PersistedLedger == GetItem(localStorage, "downloadedResources", {})
\* run r begins the books of a language in this step
BooksBegin(r) ==
    /\ runs'[r].pc = "batch"
    /\ ~(runs[r].pc = "batch" /\ runs[r].langIdx = runs'[r].langIdx)
LanguageOf(run) == LanguagesToProcess(run.tasks)[run.langIdx]

BooksEnd(r) ==
    /\ runs[r].pc = "batch"
    /\ ~(runs'[r].pc = "batch" /\ runs'[r].langIdx = runs[r].langIdx)
\* the bible and commentary resources run r was asked for in its current language
RequestedBooks(run) ==
    {id \in run.tasks : id[1] = LanguageOf(run) /\ id[2] \in {"bible", "commentary"}}

\* C19: finalizing is decided per language. When a run that was not cancelled
\* leaves the batch loop of a language in which every book fetch and merge-save
\* succeeded, the requested '<lang>-bible' and '<lang>-commentary' flags are true
\* in memory and in the durable settings, whatever failed for another language of
\* the run or for a cross-reference download.
C19_FinalizingPerLanguage ==
    [][\A r \in RunIds :
          (BooksEnd(r) /\ ~runs'[r].cancelled /\ LanguageOf(runs[r]) \notin runs'[r].bookFailed)
              => /\ RequestedBooks(runs[r]) \subseteq downloadedResources'
                 /\ RequestedBooks(runs[r]) \subseteq PersistedLedger']_vars

\* ----------------------------------------- claims, Spec: partial failures
\* book k of run r leaves its fetch in this step
LeavesFetch(r, k) ==
    /\ runs[r].pc = "batch" /\ k \in DOMAIN runs[r].books /\ runs[r].books[k].st = "fetch"
    /\ ~(/\ runs'[r].pc = "batch" /\ runs'[r].langIdx = runs[r].langIdx
         /\ k \in DOMAIN runs'[r].books /\ runs'[r].books[k].st = "fetch")
\* book k of run r is in its merge-save after this step
Saving(r, k) ==
    /\ runs'[r].pc = "batch" /\ runs'[r].langIdx = runs[r].langIdx
    /\ k \in DOMAIN runs'[r].books /\ runs'[r].books[k].st = "save"
\* the book resources the run had to fetch: requested, and not ledgered before it
ToFetch(run) ==
    {id \in run.tasks : /\ id[2] \in {"bible", "commentary"}
                        /\ (id \notin downloadedResources' \/ id \in run.finalized)}

\* C20: partial-failure tolerance. A run during which cancel was never invoked
\* does not stop at a fetch or save error: when it returns, every selectable book
\* of every language whose bible or commentary it had to fetch has been started,
\* and a book whose fetch ends without a failure goes on to its merge-save.
C20_PartialFailureTolerance ==
    [][\A r \in RunIds :
          /\ (RunEnds(r) /\ ~runs'[r].cancelled)
                => \A id \in ToFetch(runs'[r]) :
                      \A k \in 1..Len(BooksToDownload(booksInfo)) :
                          <<id[1], k>> \in runs'[r].started
          /\ \A k \in 1..(NumBooks + 1) :
                (LeavesFetch(r, k) /\ ~runs'[r].cancelled /\ env'.faults = env.faults)
                    => Saving(r, k)]_vars

\* a run over both languages has returned without cancellation: a book of 'am'
\* failed, every book of 'am' and of 'en' was started, and the books of 'en' are
\* all stored
C20_Witness ==
    \E r \in RunIds :
        /\ runs[r].pc = "done" /\ ~runs[r].cancelled
        /\ runs[r].tasks = {ResourceId("am", "bible"), ResourceId("en", "bible")}
        /\ runs[r].bookFailed = {"am"}
        /\ runs[r].started = {<<lang, k>> : lang \in LanguageSet, k \in 1..NumBooks}
        /\ BooksStored("en")

\* --------------------------------------- claims, Spec: the '<lang>-ref' entry
\* run r sets the ledger entry id in this step
Marks(r, id) == id \in runs'[r].finalized /\ id \notin runs[r].finalized

\* C21: the '<lang>-ref' entry is set by a run only in the step in which its one
\* saveCoreData('crossrefs_<lang>') call returns success, with the dataset of every
\* page of the remote table in the store, and with the cancellation flag unset.
C21_RefMarkedAfterSave ==
    [][\A r \in RunIds : \A lang \in LanguageSet :
          Marks(r, ResourceId(lang, "ref"))
              => /\ runs[r].pc = "ref_save"
                 /\ env'.faults = env.faults
                 /\ CoreKey(CrossrefsType(lang)) \in DOMAIN store'
                 /\ store'[CoreKey(CrossrefsType(lang))] = Array(RemoteCrossRefs)
                 /\ ~cancelDownloadFlag]_vars

\* ------------------------------------------------- claims, SpecLive: termination
\* C22: every run begun by start eventually returns, with isDownloading = false
\* and cancelDownloadFlag = false, when every request resolves and every storage
\* transaction ends, be it by completing, by an error or by an abort.
C22_RunReturns ==
    \A r \in RunIds :
        InFlight(r) ~> (runs[r].pc = "done" /\ ~isDownloading /\ ~cancelDownloadFlag)

\* --------------------------------- claims, SpecReader: the cross-reference map
\* the reading view looks up the existence map of language L in this step
Lookup(L) == reader'.lookups < reader.lookups /\ opResult'.key = L

\* C23: once a run has saved the cross-reference dataset of language L, a lookup
\* of the existence map of L is answered from that dataset (no read and no request
\* having failed), not from a map built before the download.
C23_MapFollowsDownload ==
    [][\A L \in ReaderLanguages :
          (/\ Lookup(L)
           /\ env'.faults = MaxFaultsReader
           /\ CoreKey(CrossrefsType(L)) \in DOMAIN store)
              => /\ opResult'.value.source = "global"
                 /\ opResult'.value.ids = CrossRefMap(store[CoreKey(CrossrefsType(L))]).ids]_vars

\* ------------------------------------------ claims, SpecLedger: what is fetched
\* run r of the per-book workflow requests the verses of book k in this step
BookRequestV1(r, k) ==
    /\ runs'[r].pc = "v1_batch"
    /\ k \in DOMAIN runs'[r].books
    /\ runs'[r].books[k].st = "fetch"
    /\ k \notin DOMAIN runs[r].books
\* the chapters of the books that the run has skipped or saved so far
RECURSIVE ChaptersCounted(_, _)
ChaptersCounted(books, k) ==
    IF k = 0 THEN 0
    ELSE ChaptersCounted(books, k - 1)
         + (IF books[k].status \in {"skipped", "success"}
              THEN BooksToDownload(booksInfo)[k].chapters ELSE 0)

WellFormedData(data, c) ==
    /\ \A j, k \in 1..Len(data) : j < k => data[j].verse_num < data[k].verse_num
    /\ \A j \in 1..Len(data) : data[j].chapter_num = c

\* C25: after a successful saveBookChaptersInBatch call, the first or a later one,
\* the record of every chapter of the payload is stored with at most one entry per
\* verse number, in ascending order of verse number, every entry carrying the
\* chapter number of the record, and with isDownloaded = true, also when the
\* record was stored before as a read-through copy (isDownloaded = false).
C25_WrittenRecordsWellFormed ==
    CallSucceeded =>
        \A i \in 1..Len(ChaptersOf(arg)) :
            LET c == ChaptersOf(arg)[i]
                key == ChapterKey(MergeBook, c, MergeLang)
            IN /\ key \in DOMAIN store
               /\ store[key].isDownloaded = TRUE
               /\ WellFormedData(store[key].data, c)

\* the first call has succeeded on a chapter that was stored as a read-through
\* copy with an entry the payload does not have, and the record now holds two
\* entries and is flagged as downloaded
C25_Witness ==
    /\ CallSucceeded
    /\ hist.started = 1
    /\ \E i \in 1..Len(ChaptersOf(arg)) :
          LET key == ChapterKey(MergeBook, ChaptersOf(arg)[i], MergeLang)
          IN /\ key \in DOMAIN hist.pre
             /\ ~hist.pre[key].isDownloaded
             /\ \E j \in 1..Len(hist.pre[key].data) :
                   /\ CarriedFields(arg, key[2], hist.pre[key].data[j].verse_num) = {}
             /\ Len(store[key].data) >= 2
             /\ store[key].isDownloaded

\* ------------------------------------------ claims, SpecReader: the reading view
\* C26: the downloaded flag of a record is never taken back by a read-through
\* write. In every step, a chapter record that is stored with isDownloaded = true
\* and is still stored afterwards has isDownloaded = true afterwards, however a
\* chapter load or a reference search interleaves with the merge-save of a download.
C26_DownloadedNotDowngraded ==
    [][\A key \in DOMAIN store :
          (/\ IsChapterKey(key)
           /\ store[key].isDownloaded
           /\ key \in DOMAIN store') => store'[key].isDownloaded]_vars

\* ------------------------------------------ claims, SpecApp: the cancellation flag
\* C27: the cancellation flag is only set while a download is running. After every
\* step cancelDownloadFlag = true implies isDownloading = true; the flag does not
\* become true while no download is running (cancel() does nothing then); and a
\* step in which a run begins leaves the flag false.
C27_FlagOnlyWhileDownloading ==
    [][/\ cancelDownloadFlag' => isDownloading'
       /\ (~isDownloading /\ cancelDownloadFlag') => cancelDownloadFlag
       /\ env'.starts < env.starts => ~cancelDownloadFlag']_vars

\* C28: a record that holds only the commentary of a download is not served as the
\* chapter. Whenever a chapter load has returned without an error, no request and
\* no transaction having failed, the rows it displays hold, for every verse of the
\* chapter, an entry with the verse's text.
C28_LoadYieldsVerseText ==
    (/\ reader.pc = "done" /\ reader.fn = "load" /\ reader.result.error = "null"
     /\ env.faults = MaxFaultsReader)
        => LET verses == FetchChapterContent(reader.bookId, reader.chapter, reader.language)
               data == reader.result.data
           IN \A n \in 1..Len(verses) :
                 \E j \in 1..Len(data) :
                     /\ data[j].verse_num = verses[n].verse_num
                     /\ "verse_text" \in DOMAIN data[j]

\* ------------------------------------------ claims, SpecSparse: a book without rows
\* the tables hold no row of book k of the kinds the run asks for
NoRowsRequested(run, k) ==
    LET bookId == BooksToDownload(booksInfo)[k].id
    IN /\ run.fetchVerses => VersesInBook(bookId) = 0
       /\ run.fetchComm => CommentaryInBook(bookId) = 0

\* C29: a book whose fetch returns no verse row and no commentary row, without an
\* error, is handled as a failed save: when such a fetch returns in a run that was
\* not cancelled, the run's success tracker is false and the language counts as
\* failed; and a run sets no '<lang>-bible' or '<lang>-commentary' flag for a
\* language in which a book of its failed.
C29_EmptyBookFailsRun ==
    [][\A r \in RunIds :
          /\ \A k \in 1..NumBooksSparse :
                (/\ LeavesFetch(r, k)
                 /\ ~runs'[r].cancelled
                 /\ env'.faults = env.faults
                 /\ NoRowsRequested(runs[r], k))
                    => /\ ~runs'[r].isSuccess
                       /\ LanguageOf(runs[r]) \in runs'[r].bookFailed
          /\ \A lang \in runs'[r].bookFailed :
                /\ ResourceId(lang, "bible") \notin runs'[r].finalized
                /\ ResourceId(lang, "commentary") \notin runs'[r].finalized]_vars

\* a run for the verses of 'am' has returned, never cancelled and with no request
\* and no transaction failed: the book with rows is stored, the book without rows
\* made the run fail, and the ledger is empty
C29_Witness ==
    \E r \in RunIds :
        /\ runs[r].pc = "done"
        /\ runs[r].tasks = {ResourceId("am", "bible")}
        /\ ~runs[r].cancelled
        /\ env.faults = MaxFaultsSparse
        /\ ~runs[r].isSuccess
        /\ runs[r].bookFailed = {"am"}
        /\ ChapterKey(BookId(1), 1, "am") \in DOMAIN store
        /\ downloadedResources = {}

\* ------------------------------------------ claims, SpecAudio: the cached URL
\* C30: the audio cache heals itself. When the error handler has read the cache and
\* found the URL whose playback failed, the entry is removed or replaced in that
\* step, and the lookup that the handler then runs is not answered from the cache.
C30_AudioCacheSelfHeals ==
    [][LET key == AudioKey(audio.bookId, audio.chapter, AudioLanguage)
       IN /\ (/\ audio.pc = "heal_get"
              /\ audio.failedUrl # Null
              /\ env'.faults = env.faults
              /\ getAudioUrl(store, key, "ok") = audio.failedUrl)
                 => getAudioUrl(store', key, "ok") # audio.failedUrl
          /\ (/\ audio.pc = "get" /\ audio.healing
              /\ env'.faults = env.faults
              /\ audio'.pc = "idle") => audio'.source # "cache"]_vars

====
